---- MODULE Spec2Model ----
(***************************************************************************)
(* Model of the OSWorld "green" session orchestrator (src/green/app.py,    *)
(* _act_core) together with the artifact writer (src/green/result_writer.py)*)
(* and the provider-facing client (src/green/white_client.py).             *)
(*                                                                         *)
(* One session is modelled from the entry of _act_core to its return (or   *)
(* to the exception that leaves it).  Program positions (pc) are placed at *)
(* the awaits of the coroutine; the code between two awaits is one action. *)
(* Floats are modelled in tenths (pause 0.5 is 5); rewards are small       *)
(* integers.  An error message is modelled by the set of the known phrases *)
(* its lower-cased text contains, which is all _classify_failure looks at. *)
(*                                                                         *)
(* Specifications:                                                         *)
(*   Spec          one session through the HTTP /act entry (_act_core);    *)
(*   SpecA2A       one session through the A2A executor (a2a_app.py),      *)
(*                 which chooses the task before it calls _act_core;       *)
(*   SpecClassify  _classify_failure applied to exception texts;           *)
(*   SpecSampler   task selection: runner.py main (random and indices      *)
(*                 modes, then its loop) and _choose_osworld_task;         *)
(*   SpecWriter    a ResultWriter used call by call, with a process kill,  *)
(*                 and the two writers of artifact.json;                   *)
(*   SpecNames     the sanitizers of the run-directory name (_safe_name,   *)
(*                 runner.py _safe) applied to task identifiers;           *)
(*   SpecRunDirs   concurrent sessions making their run directories and    *)
(*                 refreshing the 'latest' link (_make_run_dir);           *)
(*   SpecLoop      sessions of one process sharing the event loop and the  *)
(*                 default executor (run_in_thread);                       *)
(*   SpecUrl       the provider URL from the instruction of an A2A         *)
(*                 message to the POSTs of the session.                    *)
(* Each specification moves its own variables and holds the others still.  *)
(***************************************************************************)
EXTENDS Integers, Sequences, FiniteSets, TLC

\* ------------------------------------------------------------------ bounds
MaxStepsBound == 2      \* limits.max_steps ranges over 0..MaxStepsBound
MaxSecondsBound == 2    \* limits.max_seconds ranges over 0..MaxSecondsBound
MaxTick == 1            \* seconds one awaited call may take: 0..MaxTick

\* --------------------------------------------------------------- constants
DefaultPause == 5       \* 0.5 s, in tenths of a second

VARIABLES
    pc,               \* position inside _act_core
    backend_ok,       \* first component of ensure_python_backend_only()
    has_task_config,  \* isinstance(req.osworld.task_config, dict)
    max_steps,        \* req.limits.max_steps
    max_seconds,      \* req.limits.max_seconds
    now,              \* time.time(), seconds since the entry of _act_core
    t0,               \* t0 of _act_core
    env,              \* "none" until OSWorldAdapter(...) returned, then "built"
    obs,              \* current observation: [id, shot]
    steps,            \* local steps
    done,             \* local done
    reward,           \* local reward (last value assigned in the loop)
    reward_final,     \* local reward_final
    action,           \* directive returned by white.act in this iteration
    data,             \* the parsed body of the last /act reply (data in WhiteAgentClient.act)
    exc,              \* <<[kind, msg]>>: the exception caught at session scope
    run_dir,          \* TRUE once _make_run_dir created the run directory
    trace,            \* records appended to trace.jsonl
    trace_open,       \* writer._trace is open
    frames,           \* writer._frames: frames written under frames/
    result_json,      \* content of result.json: <<>> or <<payload>>
    response,         \* value of the return statement: <<>> or <<result>>
    escaped,          \* <<status>> of the exception that left _act_core
    calls,            \* external calls made so far, in order
    cf_text,          \* classifier harness: fragments of str(exc), as raised
    cf_out,           \* classifier harness: classes returned so far
    sm_pc,            \* sampler: "idle", or "iterate" inside the loop of runner.main
    sm_exists,        \* sampler: the meta file of the slice exists
    sm_meta,          \* sampler: the meta file, <<[d, ids], ...>> in file order
    sm_examples,      \* sampler: what examples/<domain>/<id>.json holds
    sm_args,          \* sampler: mode, seed, k, nogdrive, indices
    sm_prev,          \* sampler: <<[entry, res]>> of the selection before the last
    sm_last,          \* sampler: <<[entry, res]>> of the last selection
    sm_pairs,         \* sampler: pairs of runner.main
    sm_i,             \* sampler: position of runner.main in pairs
    sm_posted,        \* sampler: tasks handed to a session since the last selection
    sm_err,           \* sampler: error that ended the last invocation, or ""
    wr_pc,            \* writer: "idle", "flush" (inside log_step), "killed"
    wr_n,             \* writer: calls made so far
    wr_call,          \* writer: the last call, [op, idx, arg]
    wr_ret,           \* writer: what the last save_frame returned, <<>> is None
    wr_raised,        \* writer: the last call let an exception out
    wr_open,          \* writer: the trace handle is open
    wr_dir,           \* writer: the files under frames/, [idx, bytes]
    wr_frames,        \* writer: ResultWriter._frames
    wr_file,          \* writer: trace.jsonl as the operating system holds it
    wr_buf,           \* writer: lines written to the handle and not yet flushed
    wr_logged,        \* writer: records whose log_step has returned
    wr_result,        \* writer: content of result.json, the documents in it
    wr_summary,       \* writer: content of summary.json
    wr_res_arg,       \* writer: <<payload>> of the last write_result
    wr_sum_arg,       \* writer: <<summary>> of the last write_summary
    wr_artifact,      \* writer: content of artifact.json, the documents in it
    wr_art_log,       \* writer: artifact calls since the last frame/trace/result write
    nm_fn,            \* names: the sanitizer applied, "_safe_name" or "_safe"
    nm_in,            \* names: the task identifier, a sequence of characters
    nm_out,           \* names: the results of sanitizing it once, then again
    rd_now,           \* run dirs: the UTC second
    rd_pc,            \* run dirs: position of each session
    rd_task,          \* run dirs: task identifier of each session
    rd_dir,           \* run dirs: <<run_dir>> of each session once made
    rd_latest,        \* run dirs: <<target>> of the 'latest' symlink, <<>> if absent
    rd_last,          \* run dirs: the session whose symlink_to succeeded last, 0 if none
    rd_trace,         \* run dirs: trace.jsonl of each directory, the sessions that wrote its lines
    rd_result,        \* run dirs: result.json of each directory, <<session that wrote it>>
    lp_stage,         \* event loop: the call each session is at, an index of StageSeq
    lp_pc,            \* event loop: where each session is with that call
    lp_loop,          \* event loop: the session whose code occupies the loop thread, 0 if none
    ur_pc,            \* provider URL: position inside execute / _act_core
    ur_instr,         \* provider URL: the instruction, a sequence of characters and tags
    ur_url,           \* provider URL: white_agent_url of execute, <<>> while unset
    ur_chosen,        \* provider URL: _choose_osworld_task has been called
    ur_run_dir,       \* provider URL: the run directory has been made
    ur_base,          \* provider URL: base_url of the WhiteAgentClient, <<>> before it
    ur_posts          \* provider URL: the POSTs sent to the provider: [path, base]

vars == <<pc, backend_ok, has_task_config, max_steps, max_seconds, now, t0,
          env, obs, steps, done, reward, reward_final, action, data, exc,
          run_dir, trace, trace_open, frames, result_json, response, escaped, calls,
          cf_text, cf_out, sm_pc, sm_exists, sm_meta, sm_examples, sm_args,
          sm_prev, sm_last, sm_pairs, sm_i, sm_posted, sm_err,
          wr_pc, wr_n, wr_call, wr_ret, wr_raised, wr_open, wr_dir, wr_frames,
          wr_file, wr_buf, wr_logged, wr_result, wr_summary, wr_res_arg,
          wr_sum_arg, wr_artifact, wr_art_log,
          nm_fn, nm_in, nm_out,
          rd_now, rd_pc, rd_task, rd_dir, rd_latest, rd_last, rd_trace, rd_result,
          lp_stage, lp_pc, lp_loop,
          ur_pc, ur_instr, ur_url, ur_chosen, ur_run_dir, ur_base, ur_posts>>

\* Variables of the other entry points (classifier, sampler, writer used on
\* their own); a session leaves them alone.
classifyVars == <<cf_text, cf_out>>
samplerVars == <<sm_pc, sm_exists, sm_meta, sm_examples, sm_args, sm_prev,
                 sm_last, sm_pairs, sm_i, sm_posted, sm_err>>
writerVars == <<wr_pc, wr_n, wr_call, wr_ret, wr_raised, wr_open, wr_dir,
                wr_frames, wr_file, wr_buf, wr_logged, wr_result, wr_summary,
                wr_res_arg, wr_sum_arg, wr_artifact, wr_art_log>>
namesVars == <<nm_fn, nm_in, nm_out>>
runDirVars == <<rd_now, rd_pc, rd_task, rd_dir, rd_latest, rd_last, rd_trace,
                rd_result>>
loopVars == <<lp_stage, lp_pc, lp_loop>>
urlVars == <<ur_pc, ur_instr, ur_url, ur_chosen, ur_run_dir, ur_base, ur_posts>>
sideVars == <<namesVars, runDirVars, loopVars, urlVars>>
otherVars == <<classifyVars, samplerVars, writerVars, sideVars>>
sessionVars == <<pc, backend_ok, has_task_config, max_steps, max_seconds, now, t0,
                 env, obs, steps, done, reward, reward_final, action, data, exc,
                 run_dir, trace, trace_open, frames, result_json, response, escaped, calls>>

\* ------------------------------------------------------------ error texts
Phrases == {"setup step", "setup failed", "white /act error", "white agent",
            "unauthorized"}

\* Texts of the errors raised by the collaborators (environment, provider).
Messages == {{}, {"setup step"}, {"setup failed"}, {"white agent"}, {"unauthorized"}}

\* Variant: the default class is missing (the function falls off its end).
_classify_failure_NoDefault(msg) ==
    IF "setup step" \in msg \/ "setup failed" \in msg THEN "env_setup"
    ELSE IF "white /act error" \in msg \/ "white agent" \in msg THEN "white_error"
    ELSE IF "unauthorized" \in msg THEN "unauthorized"
    ELSE ""

\* Variant: the "unauthorized" branch is missing.
_classify_failure_NoUnauthorized(msg) ==
    IF "setup step" \in msg \/ "setup failed" \in msg THEN "env_setup"
    ELSE IF "white /act error" \in msg \/ "white agent" \in msg THEN "white_error"
    ELSE "runtime_error"

\* Variant: "unauthorized" is looked for before the white-agent phrases.
_classify_failure_UnauthorizedFirst(msg) ==
    IF "setup step" \in msg \/ "setup failed" \in msg THEN "env_setup"
    ELSE IF "unauthorized" \in msg THEN "unauthorized"
    ELSE IF "white /act error" \in msg \/ "white agent" \in msg THEN "white_error"
    ELSE "runtime_error"

_classify_failure(msg) ==
    IF "setup step" \in msg \/ "setup failed" \in msg THEN "env_setup"
    ELSE IF "white /act error" \in msg \/ "white agent" \in msg THEN "white_error"
    ELSE IF "unauthorized" \in msg THEN "unauthorized"
    ELSE "runtime_error"

\* str(HTTPException(502, f"White /act error: {e}")): the text of e with the
\* prefix "502: White /act error: " in front of it.
WrapActError(msg) == msg \cup {"white /act error"}

\* ------------------------------------------------------------- directives
NoObs == [id |-> -1, shot |-> "none"]
NoAction == [type |-> "", name |-> "", code |-> FALSE, pause |-> 0]

\* Pause values a directive carries, in tenths of a second: 0.0 and 2.0.
Pauses == {0, 20}

\* Replies of the provider's /act endpoint, as parsed JSON.  NoType is a reply
\* that is not an object or has no "type" key.
Directives ==
    [type : {"special"}, name : {"WAIT"}, code : {FALSE}, pause : Pauses]
    \cup [type : {"special"}, name : {"DONE", "FAIL", "done", ""},
          code : {FALSE}, pause : {DefaultPause}]
    \cup [type : {"code"}, name : {""}, code : {TRUE}, pause : Pauses]
    \cup [type : {"code"}, name : {""}, code : {FALSE}, pause : {DefaultPause}]
    \cup { [type |-> "special", name |-> "NOP", code |-> FALSE, pause |-> 20],
           [type |-> "click", name |-> "", code |-> FALSE, pause |-> 20] }
NoType == [type |-> "<missing>", name |-> "", code |-> FALSE, pause |-> 0]
Replies == Directives \cup {NoType}

\* Variant: the reply is handed on as it is.
ClientAct_AsIs(reply) == reply

\* WhiteAgentClient.act, after the HTTP round trip.
ClientAct(reply) ==
    IF reply = NoType
    THEN [type |-> "special", name |-> "DONE", code |-> FALSE, pause |-> DefaultPause]
    ELSE reply

\* str.upper on the names the model uses.
Upper(name) == IF name = "done" THEN "DONE" ELSE name

\* "action.pause or 0.5"
PauseOr(p) == IF p = 0 THEN DefaultPause ELSE p

\* Variant: only DONE ends the session without an environment call.
EnvCallOf_FailWaits(a) ==
    IF a.type = "special"
    THEN IF Upper(a.name) = "WAIT" THEN <<"env_wait", PauseOr(a.pause)>>
         ELSE IF Upper(a.name) = "DONE" THEN <<"none", 0>>
         ELSE <<"env_wait", DefaultPause>>
    ELSE IF a.type = "code" /\ a.code THEN <<"env_step", PauseOr(a.pause)>>
    ELSE <<"env_wait", DefaultPause>>

\* Variant: the fallback wait takes the pause of the directive.
EnvCallOf_FallbackUsesPause(a) ==
    IF a.type = "special"
    THEN IF Upper(a.name) = "WAIT" THEN <<"env_wait", PauseOr(a.pause)>>
         ELSE IF Upper(a.name) \in {"DONE", "FAIL"} THEN <<"none", 0>>
         ELSE <<"env_wait", PauseOr(a.pause)>>
    ELSE IF a.type = "code" /\ a.code THEN <<"env_step", PauseOr(a.pause)>>
    ELSE <<"env_wait", PauseOr(a.pause)>>

\* The environment call one directive leads to: <<kind, pause>>.
EnvCallOf(a) ==
    IF a.type = "special"
    THEN IF Upper(a.name) = "WAIT" THEN <<"env_wait", PauseOr(a.pause)>>
         ELSE IF Upper(a.name) \in {"DONE", "FAIL"} THEN <<"none", 0>>
         ELSE <<"env_wait", DefaultPause>>
    ELSE IF a.type = "code" /\ a.code THEN <<"env_step", PauseOr(a.pause)>>
    ELSE <<"env_wait", DefaultPause>>

\* ----------------------------------------------------------------- writer
Shots == {"none", "bad", "ok"}   \* screenshot_b64: None, not base64, base64

\* What env.step / env.wait return: screenshot, reward, done.
EnvOutcomes ==
    { [shot |-> "ok",   reward |-> 0, done |-> FALSE],
      [shot |-> "bad",  reward |-> 1, done |-> FALSE],
      [shot |-> "ok",   reward |-> 1, done |-> TRUE],
      [shot |-> "none", reward |-> 0, done |-> TRUE] }

\* Payloads save_frame can be given: None, "", a base64 text ("ok"), a text
\* whose padding is wrong ("bad", such as "abc"), a text made of characters
\* outside the base64 alphabet ("junk", such as "@@@@").
Payloads == {"none", "empty", "ok", "bad", "junk"}

\* result_writer.py 54: "if not screenshot_b64".
Truthy(shot) == shot \notin {"none", "empty"}

\* base64.b64decode(s) with its default validate=False: characters outside the
\* alphabet are discarded before the padding check, so "junk" decodes to no
\* bytes at all; wrong padding raises (<<>> here).
b64decode(shot) ==
    IF shot = "ok" THEN <<"png">>
    ELSE IF shot = "junk" THEN <<"">>
    ELSE <<>>

\* Variant: frames are numbered from the next step on.
save_frame_OneBased(fs, step_idx, o) ==
    IF o.shot = "ok" THEN Append(fs, [idx |-> step_idx + 1, obs |-> o.id]) ELSE fs

\* ResultWriter.save_frame: the frame list after save_frame(step_idx, shot).
save_frame(fs, step_idx, o) ==
    IF Truthy(o.shot) /\ b64decode(o.shot) # <<>>
    THEN Append(fs, [idx |-> step_idx, obs |-> o.id]) ELSE fs

\* ResultWriter.log_step: the trace after log_step(t, action, result).
log_step(tr, t, a, r, d) ==
    Append(tr, [t |-> t, action |-> a, reward |-> r, done |-> d])

\* ----------------------------------------------------------------- result
TaskId == "assess_id"
RunDir == "run_dir"

ActResult(success, rew, n, wall, ftype, msg, art) ==
    [task_id |-> TaskId, success |-> success, reward |-> rew, steps |-> n,
     wall_time_sec |-> wall, logs_dir |-> RunDir,
     details |-> [failure_type |-> ftype, message |-> msg, artifact_index |-> art]]

\* ------------------------------------------------------------------- Init
\* The classifier is not being exercised on its own.
ClassifyIdle == cf_text = {} /\ cf_out = <<>>

\* No task is being sampled.
SamplerIdle ==
    /\ sm_pc = "idle" /\ sm_exists = FALSE /\ sm_meta = <<>>
    /\ sm_examples = <<>> /\ sm_args = <<>> /\ sm_prev = <<>> /\ sm_last = <<>>
    /\ sm_pairs = <<>> /\ sm_i = 1 /\ sm_posted = <<>> /\ sm_err = ""

\* No writer is being used outside a session.
NoCall == [op |-> "", idx |-> 0, arg |-> ""]
WriterIdle ==
    /\ wr_pc = "idle" /\ wr_n = 0 /\ wr_call = NoCall /\ wr_ret = <<>>
    /\ wr_raised = FALSE /\ wr_open = FALSE /\ wr_dir = {} /\ wr_frames = <<>>
    /\ wr_file = <<>> /\ wr_buf = <<>> /\ wr_logged = <<>> /\ wr_result = <<>>
    /\ wr_summary = <<>> /\ wr_res_arg = <<>> /\ wr_sum_arg = <<>>
    /\ wr_artifact = <<>> /\ wr_art_log = <<>>

\* No name is being sanitized and no run directory made outside a session.
NamesIdle == nm_fn = "" /\ nm_in = <<>> /\ nm_out = <<>>
RunDirIdle ==
    /\ rd_now = 0 /\ rd_pc = <<>> /\ rd_task = <<>> /\ rd_dir = <<>>
    /\ rd_latest = <<>> /\ rd_last = 0 /\ rd_trace = <<>> /\ rd_result = {}
LoopIdle == lp_stage = <<>> /\ lp_pc = <<>> /\ lp_loop = 0
UrlIdle ==
    /\ ur_pc = "idle" /\ ur_instr = <<>> /\ ur_url = <<>> /\ ur_chosen = FALSE
    /\ ur_run_dir = FALSE /\ ur_base = <<>> /\ ur_posts = <<>>
SideIdle == NamesIdle /\ RunDirIdle /\ LoopIdle /\ UrlIdle

Init ==
    /\ SideIdle
    /\ ClassifyIdle
    /\ SamplerIdle
    /\ WriterIdle
    /\ pc = "entry"
    /\ backend_ok \in BOOLEAN
    /\ has_task_config \in BOOLEAN
    /\ max_steps \in 0..MaxStepsBound
    /\ max_seconds \in 0..MaxSecondsBound
    /\ now = 0
    /\ t0 = 0
    /\ env = "none"
    /\ obs = NoObs
    /\ steps = 0
    /\ done = FALSE
    /\ reward = 0
    /\ reward_final = 0
    /\ action = NoAction
    /\ data = NoAction
    /\ exc = <<>>
    /\ run_dir = FALSE
    /\ trace = <<>>
    /\ trace_open = FALSE
    /\ frames = <<>>
    /\ result_json = <<>>
    /\ response = <<>>
    /\ escaped = <<>>
    /\ calls = <<>>

\* The clock advances while a call is awaited.  It is read at the loop head
\* and at result assembly only, so one advance per awaited provider or reset
\* call covers every schedule of the remaining awaits.
Tick(d) == now' = now + d

Call(op, arg) == calls' = Append(calls, [op |-> op, arg |-> arg])

\* ---------------------------------------------------------------- actions
\* app.py 389-391: backend guard.
BackendGuard ==
    /\ pc = "entry"
    /\ IF backend_ok
       THEN pc' = "resolve" /\ UNCHANGED escaped
       ELSE pc' = "raised" /\ escaped' = <<500>>
    /\ UNCHANGED <<otherVars, data, backend_ok, has_task_config, max_steps, max_seconds, now, t0,
                   env, obs, steps, done, reward, reward_final, action, exc,
                   run_dir, trace, trace_open, frames, result_json, response, calls>>

\* app.py 393-423: the request carries a task_config, or env_config is needed.
\* _parse_env_config_from_instruction yields {} (its pattern asks for literal
\* backslashes and what it captures then is no JSON), so the fallback raises.
ResolveTask ==
    /\ pc = "resolve"
    /\ IF has_task_config
       THEN pc' = "open" /\ UNCHANGED escaped
       ELSE pc' = "raised" /\ escaped' = <<400>>
    /\ UNCHANGED <<otherVars, data, backend_ok, has_task_config, max_steps, max_seconds, now, t0,
                   env, obs, steps, done, reward, reward_final, action, exc,
                   run_dir, trace, trace_open, frames, result_json, response, calls>>

\* app.py 425-453: run directory, writer, header, locals.
OpenSession ==
    /\ pc = "open"
    /\ run_dir' = TRUE
    /\ trace_open' = TRUE
    /\ steps' = 0
    /\ t0' = now
    /\ reward_final' = 0
    /\ done' = FALSE
    /\ pc' = "white_reset"
    /\ UNCHANGED <<otherVars, data, backend_ok, has_task_config, max_steps, max_seconds, now,
                   env, obs, reward, action, exc, trace, frames, result_json,
                   response, escaped, calls>>

\* Variant: an error of the provider reset reaches the session handler.
WhiteReset_Unswallowed ==
    /\ pc = "white_reset"
    /\ \/ /\ Call("white_reset", 0)
          /\ pc' = "env_new"
          /\ UNCHANGED exc
       \/ \E m \in Messages :
            /\ Call("white_reset", 1)
            /\ exc' = <<[kind |-> "Exception", msg |-> m]>>
            /\ pc' = "except"
    /\ UNCHANGED <<otherVars, data, backend_ok, has_task_config, max_steps, max_seconds, now, t0,
                   env, obs, steps, done, reward, reward_final, action,
                   run_dir, trace, trace_open, frames, result_json, response,
                   escaped>>

\* app.py 457-460 and white_client.py 18-22: best-effort provider reset.  The
\* call log keeps how the call ended (0 answered, 1 raised); the session keeps
\* nothing of it.
WhiteReset ==
    /\ pc = "white_reset"
    /\ \/ Call("white_reset", 0)     \* reset answered
       \/ Call("white_reset", 1)     \* reset raised: except Exception: pass
    /\ pc' = "env_new"
    /\ UNCHANGED <<otherVars, data, backend_ok, has_task_config, max_steps, max_seconds, now, t0,
                   env, obs, steps, done, reward, reward_final, action, exc,
                   run_dir, trace, trace_open, frames, result_json, response,
                   escaped>>

\* app.py 463-469: OSWorldAdapter(...) returns, or raises into the handler.
EnvConstruct ==
    /\ pc = "env_new"
    /\ Call("env_new", 0)
    /\ \/ /\ env' = "built"
          /\ pc' = "env_reset"
          /\ UNCHANGED exc
       \/ \E m \in Messages :
            /\ exc' = <<[kind |-> "Exception", msg |-> m]>>
            /\ pc' = "except"
            /\ UNCHANGED env
    /\ UNCHANGED <<otherVars, data, backend_ok, has_task_config, max_steps, max_seconds, now, t0,
                   obs, steps, done, reward, reward_final, action,
                   run_dir, trace, trace_open, frames, result_json, response,
                   escaped>>

\* Variant: env.reset is called outside the try block.
EnvReset_Unguarded ==
    /\ pc = "env_reset"
    /\ Call("env_reset", 0)
    /\ \E d \in 0..MaxTick : Tick(d)
    /\ \/ \E s \in Shots :
            /\ obs' = [id |-> 0, shot |-> s]
            /\ frames' = save_frame(frames, steps, obs')
            /\ pc' = "loop"
            /\ UNCHANGED escaped
       \/ /\ escaped' = <<500>>
          /\ pc' = "raised"
          /\ UNCHANGED <<obs, frames>>
    /\ UNCHANGED <<otherVars, data, backend_ok, has_task_config, max_steps, max_seconds, t0,
                   env, steps, done, reward, reward_final, action, exc,
                   run_dir, trace, trace_open, result_json, response>>

\* app.py 472-473: env.reset on a worker thread, then frame 0.
EnvReset ==
    /\ pc = "env_reset"
    /\ Call("env_reset", 0)
    /\ \E d \in 0..MaxTick : Tick(d)
    /\ \/ \E s \in Shots :
            /\ obs' = [id |-> 0, shot |-> s]
            /\ frames' = save_frame(frames, steps, obs')
            /\ pc' = "loop"
            /\ UNCHANGED exc
       \/ \E m \in Messages :
            /\ exc' = <<[kind |-> "Exception", msg |-> m]>>
            /\ pc' = "except"
            /\ UNCHANGED <<obs, frames>>
    /\ UNCHANGED <<otherVars, data, backend_ok, has_task_config, max_steps, max_seconds, t0,
                   env, steps, done, reward, reward_final, action,
                   run_dir, trace, trace_open, result_json, response, escaped>>

\* Variant: the step budget is compared with <=.
LoopCond_OffByOne == steps <= max_steps /\ (now - t0) < max_seconds /\ ~done

\* Variant: the loop condition does not look at done.
LoopCond_NoDone == steps < max_steps /\ (now - t0) < max_seconds

\* app.py 481: the loop condition.
LoopCond == steps < max_steps /\ (now - t0) < max_seconds /\ ~done

\* app.py 481-482: loop head; a new iteration begins with steps += 1.
LoopHead ==
    /\ pc = "loop"
    /\ IF LoopCond
       THEN steps' = steps + 1 /\ pc' = "act"
       ELSE pc' = "assemble" /\ UNCHANGED steps
    /\ UNCHANGED <<otherVars, data, backend_ok, has_task_config, max_steps, max_seconds, now, t0,
                   env, obs, done, reward, reward_final, action, exc,
                   run_dir, trace, trace_open, frames, result_json, response,
                   escaped, calls>>

\* app.py 484-494: white.act; any error becomes HTTPException(502).
WhiteAct ==
    /\ pc = "act"
    /\ Call("act", steps)
    /\ \E d \in 0..MaxTick : Tick(d)
    /\ \/ \E reply \in Replies :
            /\ data' = reply
            /\ action' = ClientAct(reply)
            /\ pc' = "dispatch"
            /\ UNCHANGED exc
       \/ \E m \in Messages :
            /\ exc' = <<[kind |-> "HTTPException", msg |-> WrapActError(m)]>>
            /\ pc' = "except"
            /\ UNCHANGED <<action, data>>
    /\ UNCHANGED <<otherVars, backend_ok, has_task_config, max_steps, max_seconds, t0,
                   env, obs, steps, done, reward, reward_final,
                   run_dir, trace, trace_open, frames, result_json, response,
                   escaped>>

\* app.py 496-513: dispatch on the directive.
Dispatch ==
    /\ pc = "dispatch"
    /\ LET c == EnvCallOf(action) IN
       IF c[1] = "none"
       THEN /\ done' = TRUE
            /\ reward' = 0
            /\ pc' = "record"
            /\ UNCHANGED <<obs, exc, calls>>
       ELSE /\ Call(c[1], c[2])
            /\ \/ \E o \in EnvOutcomes :
                    /\ obs' = [id |-> steps, shot |-> o.shot]
                    /\ reward' = o.reward
                    /\ done' = o.done
                    /\ pc' = "record"
                    /\ UNCHANGED exc
               \/ \E m \in Messages :
                    /\ exc' = <<[kind |-> "Exception", msg |-> m]>>
                    /\ pc' = "except"
                    /\ UNCHANGED <<obs, reward, done>>
    /\ UNCHANGED <<otherVars, data, backend_ok, has_task_config, max_steps, max_seconds, now, t0,
                   env, steps, reward_final, action,
                   run_dir, trace, trace_open, frames, result_json, response,
                   escaped>>

\* Variant: the loop is left on done before the step is recorded.
Record_BreakOnDone ==
    /\ pc = "record"
    /\ frames' = IF done THEN frames ELSE save_frame(frames, steps, obs)
    /\ trace' = IF done THEN trace ELSE log_step(trace, steps, action, reward, done)
    /\ reward_final' = IF done THEN reward ELSE reward_final
    /\ pc' = "loop"
    /\ UNCHANGED <<otherVars, data, backend_ok, has_task_config, max_steps, max_seconds, now, t0,
                   env, obs, steps, done, reward, action, exc,
                   run_dir, trace_open, result_json, response, escaped, calls>>

\* Variant: the final reward follows every step's reward.
Record_AlwaysReward ==
    /\ pc = "record"
    /\ frames' = save_frame(frames, steps, obs)
    /\ trace' = log_step(trace, steps, action, reward, done)
    /\ reward_final' = reward
    /\ pc' = "loop"
    /\ UNCHANGED <<otherVars, data, backend_ok, has_task_config, max_steps, max_seconds, now, t0,
                   env, obs, steps, done, reward, action, exc,
                   run_dir, trace_open, result_json, response, escaped, calls>>

\* Variant: a step ended by DONE or FAIL is recorded after the loop.
Record_NotOnTermination ==
    /\ pc = "record"
    /\ frames' = save_frame(frames, steps, obs)
    /\ trace' = IF EnvCallOf(action)[1] = "none" THEN trace
                ELSE log_step(trace, steps, action, reward, done)
    /\ reward_final' = IF done THEN reward ELSE reward_final
    /\ pc' = "loop"
    /\ UNCHANGED <<otherVars, data, backend_ok, has_task_config, max_steps, max_seconds, now, t0,
                   env, obs, steps, done, reward, action, exc,
                   run_dir, trace_open, result_json, response, escaped, calls>>

\* Variant: the final reward keeps the largest reward seen.
Record_BestReward ==
    /\ pc = "record"
    /\ frames' = save_frame(frames, steps, obs)
    /\ trace' = log_step(trace, steps, action, reward, done)
    /\ reward_final' = IF done \/ reward > reward_final THEN reward ELSE reward_final
    /\ pc' = "loop"
    /\ UNCHANGED <<otherVars, data, backend_ok, has_task_config, max_steps, max_seconds, now, t0,
                   env, obs, steps, done, reward, action, exc,
                   run_dir, trace_open, result_json, response, escaped, calls>>

\* app.py 515-528: frame, StepRecord, final reward.
Record ==
    /\ pc = "record"
    /\ frames' = save_frame(frames, steps, obs)
    /\ trace' = log_step(trace, steps, action, reward, done)
    /\ reward_final' = IF done THEN reward ELSE reward_final
    /\ pc' = "loop"
    /\ UNCHANGED <<otherVars, data, backend_ok, has_task_config, max_steps, max_seconds, now, t0,
                   env, obs, steps, done, reward, action, exc,
                   run_dir, trace_open, result_json, response, escaped, calls>>

\* Variant: a session ended by FAIL is reported as a failure.
Assemble_FailIsFailure ==
    /\ pc = "assemble"
    /\ LET wall == now - t0
           ftype == IF steps > 0 /\ Len(trace) = steps
                       /\ Upper(trace[steps].action.name) = "FAIL"
                    THEN "runtime_error" ELSE "" IN
       /\ result_json' = <<ActResult(reward_final > 0, reward_final, steps, wall,
                                     ftype, {}, FALSE)>>
       /\ response' = <<ActResult(reward_final > 0, reward_final, steps, wall,
                                  ftype, {}, TRUE)>>
    /\ pc' = "finally"
    /\ UNCHANGED <<otherVars, data, backend_ok, has_task_config, max_steps, max_seconds, now, t0,
                   env, obs, steps, done, reward, reward_final, action, exc,
                   run_dir, trace, trace_open, frames, escaped, calls>>

\* Variant: success follows the reward of the last step.
Assemble_LastStepReward ==
    /\ pc = "assemble"
    /\ LET wall == now - t0 IN
       /\ result_json' = <<ActResult(reward > 0, reward, steps, wall, "", {}, FALSE)>>
       /\ response' = <<ActResult(reward > 0, reward, steps, wall, "", {}, TRUE)>>
    /\ pc' = "finally"
    /\ UNCHANGED <<otherVars, data, backend_ok, has_task_config, max_steps, max_seconds, now, t0,
                   env, obs, steps, done, reward, reward_final, action, exc,
                   run_dir, trace, trace_open, frames, escaped, calls>>

\* app.py 530-556: result assembly on the normal path.  result.json is
\* written before artifact_index is added to the details.
Assemble ==
    /\ pc = "assemble"
    /\ LET wall == now - t0 IN
       /\ result_json' = <<ActResult(reward_final > 0, reward_final, steps, wall,
                                     "", {}, FALSE)>>
       /\ response' = <<ActResult(reward_final > 0, reward_final, steps, wall,
                                  "", {}, TRUE)>>
    /\ pc' = "finally"
    /\ UNCHANGED <<otherVars, data, backend_ok, has_task_config, max_steps, max_seconds, now, t0,
                   env, obs, steps, done, reward, reward_final, action, exc,
                   run_dir, trace, trace_open, frames, escaped, calls>>

\* Variant: the handler returns the failure result without writing result.json.
Handler_NoWrite ==
    /\ pc = "except"
    /\ LET wall == IF now - t0 > 0 THEN now - t0 ELSE 0
           failure_type == _classify_failure(exc[1].msg) IN
       response' = <<ActResult(FALSE, 0, steps, wall, failure_type, exc[1].msg, TRUE)>>
    /\ pc' = "finally"
    /\ UNCHANGED <<otherVars, data, backend_ok, has_task_config, max_steps, max_seconds, now, t0,
                   env, obs, steps, done, reward, reward_final, action, exc,
                   run_dir, trace, trace_open, frames, result_json, escaped, calls>>

\* Variant: the handler reports the number of completed iterations.
Handler_CompletedSteps ==
    /\ pc = "except"
    /\ LET wall == IF now - t0 > 0 THEN now - t0 ELSE 0
           failure_type == _classify_failure(exc[1].msg) IN
       /\ result_json' = <<ActResult(FALSE, 0, Len(trace), wall, failure_type,
                                     exc[1].msg, FALSE)>>
       /\ response' = <<ActResult(FALSE, 0, Len(trace), wall, failure_type,
                                  exc[1].msg, TRUE)>>
    /\ pc' = "finally"
    /\ UNCHANGED <<otherVars, data, backend_ok, has_task_config, max_steps, max_seconds, now, t0,
                   env, obs, steps, done, reward, reward_final, action, exc,
                   run_dir, trace, trace_open, frames, escaped, calls>>

\* Variant: the handler reports the reward of the last completed step.
Handler_LastReward ==
    /\ pc = "except"
    /\ LET wall == IF now - t0 > 0 THEN now - t0 ELSE 0
           failure_type == _classify_failure(exc[1].msg) IN
       /\ result_json' = <<ActResult(reward > 0, reward, steps, wall, failure_type,
                                     exc[1].msg, FALSE)>>
       /\ response' = <<ActResult(reward > 0, reward, steps, wall, failure_type,
                                  exc[1].msg, TRUE)>>
    /\ pc' = "finally"
    /\ UNCHANGED <<otherVars, data, backend_ok, has_task_config, max_steps, max_seconds, now, t0,
                   env, obs, steps, done, reward, reward_final, action, exc,
                   run_dir, trace, trace_open, frames, escaped, calls>>

\* app.py 558-591: the session-scope handler.
Handler ==
    /\ pc = "except"
    /\ LET wall == IF now - t0 > 0 THEN now - t0 ELSE 0
           failure_type == _classify_failure(exc[1].msg) IN
       /\ result_json' = <<ActResult(FALSE, 0, steps, wall, failure_type, exc[1].msg, FALSE)>>
       /\ response' = <<ActResult(FALSE, 0, steps, wall, failure_type, exc[1].msg, TRUE)>>
    /\ pc' = "finally"
    /\ UNCHANGED <<otherVars, data, backend_ok, has_task_config, max_steps, max_seconds, now, t0,
                   env, obs, steps, done, reward, reward_final, action, exc,
                   run_dir, trace, trace_open, frames, escaped, calls>>

\* Variant: an error of env.close is not caught and leaves the function.
EnvClose_Unswallowed ==
    /\ pc = "finally"
    /\ IF env # "none"
       THEN \E ok \in BOOLEAN :
              /\ Call("env_close", 0)
              /\ IF ok THEN pc' = "writer_close" /\ UNCHANGED escaped
                       ELSE pc' = "raised" /\ escaped' = <<500>>
       ELSE UNCHANGED <<calls, escaped>> /\ pc' = "writer_close"
    /\ UNCHANGED <<otherVars, data, backend_ok, has_task_config, max_steps, max_seconds, now, t0,
                   env, obs, steps, done, reward, reward_final, action, exc,
                   run_dir, trace, trace_open, frames, result_json, response>>

\* Variant: both closes share one try block, so an error of env.close skips
\* writer.close.
EnvClose_ErrorSkipsWriterClose ==
    /\ pc = "finally"
    /\ IF env # "none"
       THEN /\ Call("env_close", 0)
            /\ \/ pc' = "writer_close"
               \/ pc' = "returned"
       ELSE /\ UNCHANGED calls
            /\ pc' = "writer_close"
    /\ UNCHANGED <<otherVars, data, backend_ok, has_task_config, max_steps, max_seconds, now, t0,
                   env, obs, steps, done, reward, reward_final, action, exc,
                   run_dir, trace, trace_open, frames, result_json, response,
                   escaped>>

\* app.py 593-598: env.close on a worker thread when an adapter exists; an
\* error of the close is dropped.
EnvClose ==
    /\ pc = "finally"
    /\ IF env # "none"
       THEN /\ Call("env_close", 0)
            /\ \/ pc' = "writer_close"     \* close returned
               \/ pc' = "writer_close"     \* close raised: except ... pass
       ELSE /\ UNCHANGED calls
            /\ pc' = "writer_close"
    /\ UNCHANGED <<otherVars, data, backend_ok, has_task_config, max_steps, max_seconds, now, t0,
                   env, obs, steps, done, reward, reward_final, action, exc,
                   run_dir, trace, trace_open, frames, result_json, response,
                   escaped>>

\* app.py 599 and result_writer.py 137-141: writer.close, then the return.
WriterClose ==
    /\ pc = "writer_close"
    /\ trace_open' = FALSE
    /\ pc' = "returned"
    /\ UNCHANGED <<otherVars, data, backend_ok, has_task_config, max_steps, max_seconds, now, t0,
                   env, obs, steps, done, reward, reward_final, action, exc,
                   run_dir, trace, frames, result_json, response, escaped, calls>>

Next ==
    \/ BackendGuard
    \/ ResolveTask
    \/ OpenSession
    \/ WhiteReset
    \/ EnvConstruct
    \/ EnvReset
    \/ LoopHead
    \/ WhiteAct
    \/ Dispatch
    \/ Record
    \/ Assemble
    \/ Handler
    \/ EnvClose
    \/ WriterClose

Spec == Init /\ [][Next]_vars

TypeOK ==
    /\ pc \in {"entry", "resolve", "open", "white_reset", "env_new", "env_reset",
               "loop", "act", "dispatch", "record", "assemble", "except",
               "finally", "writer_close", "returned", "raised",
               "a2a", "a2a_raised"}
    /\ steps \in 0..(MaxStepsBound + 1)
    /\ Len(result_json) <= 1 /\ Len(response) <= 1 /\ Len(escaped) <= 1

\* -------------------------------------------------- _classify_failure alone
\* Fragments an exception text is made of, in the case they are raised with.
\* "timeout" and "Connection reset" contain no known phrase.
Fragments == {"Setup step", "setup failed", "White /act error", "white agent",
              "UNAUTHORIZED", "timeout", "Connection reset"}

\* str.lower on one fragment.
Lower(f) ==
    CASE f = "Setup step" -> "setup step"
      [] f = "White /act error" -> "white /act error"
      [] f = "UNAUTHORIZED" -> "unauthorized"
      [] f = "Connection reset" -> "connection reset"
      [] OTHER -> f

\* app.py 67: msg = str(exc).lower()
LowerText(text) == {Lower(f) : f \in text}

MaxClassifyCalls == 2

\* No session is running: the session's variables stay at their initial values.
SessionIdle ==
    /\ pc = "entry" /\ backend_ok = TRUE /\ has_task_config = TRUE
    /\ max_steps = 0 /\ max_seconds = 0 /\ now = 0 /\ t0 = 0
    /\ env = "none" /\ obs = NoObs /\ steps = 0 /\ done = FALSE
    /\ reward = 0 /\ reward_final = 0 /\ action = NoAction /\ exc = <<>>
    /\ data = NoAction
    /\ run_dir = FALSE /\ trace = <<>> /\ trace_open = FALSE /\ frames = <<>>
    /\ result_json = <<>> /\ response = <<>> /\ escaped = <<>> /\ calls = <<>>

InitClassify ==
    /\ SideIdle
    /\ SessionIdle
    /\ SamplerIdle
    /\ WriterIdle
    /\ cf_text \in SUBSET Fragments
    /\ cf_out = <<>>

\* app.py 65-74: one call of _classify_failure(exc) on the same exception.
Classify ==
    /\ Len(cf_out) < MaxClassifyCalls
    /\ cf_out' = Append(cf_out, _classify_failure(LowerText(cf_text)))
    /\ UNCHANGED <<cf_text, sessionVars, sideVars, samplerVars, writerVars>>

NextClassify == Classify

SpecClassify == InitClassify /\ [][NextClassify]_vars

\* ------------------------------------------------------------ task sampler
\* The corpus (meta) file maps a domain to the list of its example ids, in the
\* order the file gives them.  Domains and ids are numbered by their rank in
\* the lexical order of their names, so that sorted() is the order of the
\* numbers: domain 1 is "chrome", domain 2 is "gdrive".
Domains == {1, 2}
Ids == {1, 2}
MaxPairs == 3     \* a meta file lists at most MaxPairs examples

\* Lists without repetition over a set.
RECURSIVE Arrangements(_)
Arrangements(S) ==
    {<<>>} \cup UNION {{<<x>> \o t : t \in Arrangements(S \ {x})} : x \in S}

\* app.py 303-313: candidates in the order meta.items() gives them.
RECURSIVE CandidatesInFileOrder(_)
CandidatesInFileOrder(meta) ==
    IF meta = <<>> THEN <<>>
    ELSE [i \in 1..Len(Head(meta).ids) |-> <<Head(meta).d, Head(meta).ids[i]>>]
         \o CandidatesInFileOrder(Tail(meta))

\* The meta files: JSON objects {domain: [ids]}, keys in file order.
MetaFiles ==
    LET Entries == [d : Domains, ids : Arrangements(Ids)] IN
    {f \in UNION {[1..n -> Entries] : n \in 0..Cardinality(Domains)} :
        /\ \A i, j \in 1..Len(f) : i # j => f[i].d # f[j].d
        /\ Len(CandidatesInFileOrder(f)) <= MaxPairs}

\* The (domain, id) pairs a meta file holds, whatever their order.
Content(meta) ==
    {CandidatesInFileOrder(meta)[i] : i \in 1..Len(CandidatesInFileOrder(meta))}

PairBefore(p, q) == p[1] < q[1] \/ (p[1] = q[1] /\ p[2] < q[2])

\* runner.py 69-75: sorted domains, and sorted ids inside each domain.
_pairs_from_meta(meta) ==
    LET keys == SortSeq([i \in 1..Len(meta) |-> meta[i].d], <)
        idsOf(d) == (CHOOSE e \in {meta[i] : i \in 1..Len(meta)} : e.d = d).ids
        RECURSIVE walk(_)
        walk(ds) ==
            IF ds = <<>> THEN <<>>
            ELSE LET ex == SortSeq(idsOf(Head(ds)), <) IN
                 [i \in 1..Len(ex) |-> <<Head(ds), ex[i]>>] \o walk(Tail(ds))
    IN walk(keys)

\* The example files under examples/<domain>/<id>.json: each is a plain task,
\* a task one of whose steps points at drive.google.com, or is absent.
ExampleSets ==
    { [p \in Domains \X Ids |-> "plain"],
      [p \in Domains \X Ids |-> IF p = <<1, 1>> THEN "drive" ELSE "plain"],
      [p \in Domains \X Ids |-> IF p = <<1, 2>> THEN "missing" ELSE "plain"] }

\* runner.py 88-111: the domain is named after Google Drive ("gdrive" is
\* domain 2), or a step of the example refers to it.
_requires_gdrive(kind, domain) == domain = 2 \/ kind = "drive"

\* runner.py 113-118, run without --no-proxy.
_should_skip(kind, domain, skip_gdrive) == skip_gdrive /\ _requires_gdrive(kind, domain)

\* app.py 335-336: the filter of _choose_osworld_task reads "domain/id" only.
NameHasGdrive(p) == p[1] = 2

\* random.Random(seed): the generator is a function of its seed and of the
\* number of draws made.  A linear congruential step stands for the Mersenne
\* Twister; Draw is the state after one draw, Below the number below n it gives.
Seeds == {0, 1}
Draw(st) == (5 * st + 3) % 16
Below(st, n) == (Draw(st) \div 2) % n

Swap(seq, i, j) ==
    [x \in 1..Len(seq) |-> IF x = i THEN seq[j] ELSE IF x = j THEN seq[i] ELSE seq[x]]

\* random.shuffle: for i from the last position down to the second, exchange
\* position i with a position drawn below it (itself included).
RECURSIVE ShuffleFrom(_, _, _)
ShuffleFrom(seq, i, st) ==
    IF i <= 1 THEN seq
    ELSE ShuffleFrom(Swap(seq, i, Below(st, i) + 1), i - 1, Draw(st))

Shuffle(seq, seed) == ShuffleFrom(seq, Len(seq), seed)

\* rng.choice(seq) on a fresh generator.
Choice(seq, seed) == seq[Below(seed, Len(seq)) + 1]

NoPairs == <<>>
Selected(pairs) == [err |-> "", pairs |-> pairs]
Failed(e) == [err |-> e, pairs |-> NoPairs]

\* runner.py 223-231: walk the shuffled list, keep the tasks that are not
\* skipped, stop at k of them.  A missing example file ends the program.
RECURSIVE Scan(_, _, _, _, _)
Scan(shuffled, i, acc, a, ex) ==
    IF i > Len(shuffled) THEN Selected(acc)
    ELSE LET p == shuffled[i] IN
         IF ex[p] = "missing" THEN Failed("example_not_found")
         ELSE IF _should_skip(ex[p], p[1], a.nogdrive) THEN Scan(shuffled, i + 1, acc, a, ex)
         ELSE IF Len(acc) + 1 >= a.k THEN Selected(Append(acc, p))
         ELSE Scan(shuffled, i + 1, Append(acc, p), a, ex)

\* Variant: a selection shorter than k is refused.
RandomMode_ExactlyK(all_pairs, a, ex) ==
    IF a.k <= 0 THEN Failed("k_not_positive")
    ELSE LET r == Scan(Shuffle(all_pairs, a.seed), 1, <<>>, a, ex) IN
         IF r.err = "" /\ Len(r.pairs) < a.k THEN Failed("no_runnable_tasks") ELSE r

\* runner.py 212-234: mode=random.
RandomMode(all_pairs, a, ex) ==
    IF a.k <= 0 THEN Failed("k_not_positive")
    ELSE LET r == Scan(Shuffle(all_pairs, a.seed), 1, <<>>, a, ex) IN
         IF r.err = "" /\ r.pairs = <<>> THEN Failed("no_runnable_tasks") ELSE r

\* Variant: an index out of range is passed over.
IndicesMode_SkipBad(all_pairs, a) ==
    IF a.indices = <<>> THEN Failed("indices_required")
    ELSE Selected(SelectSeq([i \in 1..Len(a.indices) |->
                                IF a.indices[i] >= 0 /\ a.indices[i] < Len(all_pairs)
                                THEN all_pairs[a.indices[i] + 1] ELSE <<0, 0>>],
                            LAMBDA q : q # <<0, 0>>))

\* runner.py 235-246: mode=indices; the first index outside 0..N-1 ends the
\* program.
IndicesMode(all_pairs, a) ==
    IF a.indices = <<>> THEN Failed("indices_required")
    ELSE IF \E i \in 1..Len(a.indices) :
              ~(0 <= a.indices[i] /\ a.indices[i] < Len(all_pairs))
         THEN Failed("index_out_of_range")
         ELSE Selected([i \in 1..Len(a.indices) |-> all_pairs[a.indices[i] + 1]])

\* runner.py 33-61 and 195-248: the selection of main.
RunnerSelection(exists, meta, a, ex) ==
    IF ~exists THEN Failed("meta_not_found")
    ELSE IF a.mode = "random" THEN RandomMode(_pairs_from_meta(meta), a, ex)
    ELSE IndicesMode(_pairs_from_meta(meta), a)

\* app.py 329-340: the nogdrive filter; a filter that leaves nothing is dropped.
NogdriveFilter(cands, a) ==
    LET filtered == SelectSeq(cands, LAMBDA p : ~NameHasGdrive(p)) IN
    IF a.nogdrive /\ filtered # <<>> THEN filtered ELSE cands

\* app.py 283-357: _choose_osworld_task without a direct task_config.
\* exists is meta_path.is_file().
_choose_osworld_task(exists, meta, a, ex) ==
    IF a.mode # "random" THEN Failed("unsupported_mode")
    ELSE IF ~exists THEN Failed("meta_not_found")
    ELSE IF CandidatesInFileOrder(meta) = <<>> THEN Failed("empty_meta")
    ELSE LET chosen == Choice(NogdriveFilter(CandidatesInFileOrder(meta), a), a.seed) IN
         IF ex[chosen] = "missing" THEN Failed("task_config_not_found")
         ELSE Selected(<<chosen>>)

MaxK == 2
MaxIdx == 2       \* --indices lists numbers from -1 to MaxIdx

IndexValues == (0 - 1)..MaxIdx
IndexLists ==
    {<<>>} \cup {<<i>> : i \in IndexValues}
           \cup {<<i, j>> : i \in IndexValues, j \in IndexValues}

SamplerArgs ==
    [mode : {"random"}, seed : Seeds, k : 0..MaxK, nogdrive : BOOLEAN,
     indices : {<<>>}]
    \cup [mode : {"indices"}, seed : {0}, k : {1}, nogdrive : BOOLEAN,
          indices : IndexLists]

InitSampler ==
    /\ SideIdle
    /\ SessionIdle
    /\ ClassifyIdle
    /\ WriterIdle
    /\ sm_pc = "idle"
    /\ \/ sm_exists = TRUE /\ sm_meta \in MetaFiles
       \/ sm_exists = FALSE /\ sm_meta = <<>>
    /\ sm_examples \in ExampleSets
    /\ sm_args \in SamplerArgs
    /\ sm_prev = <<>>
    /\ sm_last = <<>>
    /\ sm_pairs = <<>>
    /\ sm_i = 1
    /\ sm_posted = <<>>
    /\ sm_err = ""

\* runner.py 195-246: main loads the slice and decides the selection; an error
\* ends the program.
RunnerSelect ==
    /\ sm_pc = "idle"
    /\ LET r == RunnerSelection(sm_exists, sm_meta, sm_args, sm_examples) IN
       /\ sm_prev' = sm_last
       /\ sm_last' = <<[entry |-> "runner", res |-> r]>>
       /\ sm_pairs' = r.pairs
       /\ sm_err' = r.err
       /\ sm_pc' = IF r.err = "" THEN "iterate" ELSE "idle"
    /\ sm_i' = 1
    /\ sm_posted' = <<>>
    /\ UNCHANGED <<sm_exists, sm_meta, sm_examples, sm_args, sessionVars, sideVars, classifyVars, writerVars>>

\* runner.py 302-394: one turn of the loop over pairs: the example is loaded,
\* a task to skip gets a "skipped" row, any other is POSTed to /act.
RunnerIterate ==
    /\ sm_pc = "iterate"
    /\ IF sm_i > Len(sm_pairs)
       THEN sm_pc' = "idle" /\ UNCHANGED <<sm_i, sm_posted, sm_err>>
       ELSE LET p == sm_pairs[sm_i] IN
            IF sm_examples[p] = "missing"
            THEN /\ sm_err' = "example_not_found"
                 /\ sm_pc' = "idle"
                 /\ UNCHANGED <<sm_i, sm_posted>>
            ELSE /\ sm_posted' = IF _should_skip(sm_examples[p], p[1], sm_args.nogdrive)
                                 THEN sm_posted ELSE Append(sm_posted, p)
                 /\ sm_i' = sm_i + 1
                 /\ UNCHANGED <<sm_pc, sm_err>>
    /\ UNCHANGED <<sm_exists, sm_meta, sm_examples, sm_args, sm_prev, sm_last,
                   sm_pairs, sessionVars, sideVars, classifyVars, writerVars>>

\* a2a_app.py 105-117: _choose_osworld_task(env_cfg); the task it returns is
\* the one the session is started with.
ChooseTask ==
    /\ sm_pc = "idle"
    /\ LET r == _choose_osworld_task(sm_exists, sm_meta, sm_args, sm_examples) IN
       /\ sm_prev' = sm_last
       /\ sm_last' = <<[entry |-> "app", res |-> r]>>
       /\ sm_posted' = r.pairs
       /\ sm_err' = r.err
    /\ UNCHANGED <<sm_pc, sm_exists, sm_meta, sm_examples, sm_args, sm_pairs, sm_i,
                   sessionVars, sideVars, classifyVars, writerVars>>

\* Between two invocations the meta file is rewritten with the same content
\* in another order: two domains, or two ids of one domain, change places.
ReorderMeta ==
    /\ sm_pc = "idle"
    /\ \/ \E i, j \in 1..Len(sm_meta) :
            i < j /\ sm_meta' = Swap(sm_meta, i, j)
       \/ \E n \in 1..Len(sm_meta) : \E i, j \in 1..Len(sm_meta[n].ids) :
            /\ i < j
            /\ sm_meta' = [sm_meta EXCEPT ![n].ids = Swap(sm_meta[n].ids, i, j)]
    /\ UNCHANGED <<sm_pc, sm_exists, sm_examples, sm_args, sm_prev, sm_last,
                   sm_pairs, sm_i, sm_posted, sm_err, sessionVars, sideVars, classifyVars, writerVars>>

NextSampler ==
    \/ RunnerSelect
    \/ RunnerIterate
    \/ ChooseTask
    \/ ReorderMeta

SpecSampler == InitSampler /\ [][NextSampler]_vars

\* ------------------------------------------------------- the A2A entry point
\* a2a_app.py 25-32: DEFAULT_ENV_CONFIG.
DefaultEnvConfig ==
    [mode |-> "random", seed |-> 42, k |-> 1, nogdrive |-> TRUE, indices |-> <<>>]

SamplerErrors == {"unsupported_mode", "meta_not_found", "empty_meta",
                  "task_config_not_found"}

\* The executor has received a message; no request is built yet.
InitA2A ==
    /\ SideIdle
    /\ ClassifyIdle
    /\ SamplerIdle
    /\ WriterIdle
    /\ pc = "a2a"
    /\ backend_ok \in BOOLEAN
    /\ has_task_config = FALSE
    /\ max_steps = 0 /\ max_seconds = 0 /\ now = 0 /\ t0 = 0
    /\ env = "none" /\ obs = NoObs /\ steps = 0 /\ done = FALSE
    /\ reward = 0 /\ reward_final = 0 /\ action = NoAction /\ exc = <<>>
    /\ data = NoAction
    /\ run_dir = FALSE /\ trace = <<>> /\ trace_open = FALSE /\ frames = <<>>
    /\ result_json = <<>> /\ response = <<>> /\ escaped = <<>> /\ calls = <<>>

\* Variant: an error of the task selection is put aside and the session is
\* started all the same.
A2AExecute_StartsAnyway ==
    /\ pc = "a2a"
    /\ \E has_url, region_set, exists \in BOOLEAN :
       \E meta \in MetaFiles : \E ex \in ExampleSets :
         LET r == _choose_osworld_task(exists, IF exists THEN meta ELSE <<>>,
                                       DefaultEnvConfig, ex) IN
         IF ~has_url THEN sm_err' = "missing_white_url" /\ pc' = "a2a_raised"
         ELSE IF ~region_set THEN sm_err' = "region_not_set" /\ pc' = "a2a_raised"
         ELSE sm_err' = r.err /\ pc' = "entry"
    /\ has_task_config' = (pc' = "entry")
    /\ max_steps' = IF pc' = "entry" THEN MaxStepsBound ELSE max_steps
    /\ max_seconds' = IF pc' = "entry" THEN MaxSecondsBound ELSE max_seconds
    /\ UNCHANGED <<classifyVars, writerVars, sideVars, sm_pc, sm_exists, sm_meta, sm_examples, sm_args,
                   sm_prev, sm_last, sm_pairs, sm_i, sm_posted, backend_ok, now, t0,
                   env, obs, steps, done, reward, reward_final, action, data, exc,
                   run_dir, trace, trace_open, frames, result_json, response,
                   escaped, calls>>

\* a2a_app.py 68-117: execute up to the call of _act_core: the provider URL
\* and the region are required, then one task is chosen with the default
\* configuration and the request is built around it (default limits, here the
\* largest the model has).  Any of the three can raise.
A2AExecute ==
    /\ pc = "a2a"
    /\ \E has_url, region_set, exists \in BOOLEAN :
       \E meta \in MetaFiles : \E ex \in ExampleSets :
         LET r == _choose_osworld_task(exists, IF exists THEN meta ELSE <<>>,
                                       DefaultEnvConfig, ex) IN
         IF ~has_url THEN sm_err' = "missing_white_url" /\ pc' = "a2a_raised"
         ELSE IF ~region_set THEN sm_err' = "region_not_set" /\ pc' = "a2a_raised"
         ELSE IF r.err # "" THEN sm_err' = r.err /\ pc' = "a2a_raised"
         ELSE sm_err' = "" /\ pc' = "entry"
    /\ has_task_config' = (pc' = "entry")
    /\ max_steps' = IF pc' = "entry" THEN MaxStepsBound ELSE max_steps
    /\ max_seconds' = IF pc' = "entry" THEN MaxSecondsBound ELSE max_seconds
    /\ UNCHANGED <<classifyVars, writerVars, sideVars, sm_pc, sm_exists, sm_meta, sm_examples, sm_args,
                   sm_prev, sm_last, sm_pairs, sm_i, sm_posted, backend_ok, now, t0,
                   env, obs, steps, done, reward, reward_final, action, data, exc,
                   run_dir, trace, trace_open, frames, result_json, response,
                   escaped, calls>>

NextA2A ==
    \/ A2AExecute
    \/ Next

SpecA2A == InitA2A /\ [][NextA2A]_vars

\* ------------------------------------------------------ ResultWriter alone
MaxWriterCalls == 3
FrameIndexes == {0, 1}
Documents == {"first", "second"}

\* result_writer.py 27-46: a writer was constructed on a run directory; the
\* directory may be one an earlier run of the same task left behind, whose
\* trace.jsonl, result.json and frames are still there (the trace is opened
\* with "a", the directories are made with exist_ok); _frames starts empty.
InitWriter ==
    /\ SideIdle
    /\ SessionIdle
    /\ ClassifyIdle
    /\ SamplerIdle
    /\ wr_pc = "idle"
    /\ wr_n = 0
    /\ wr_call = NoCall
    /\ wr_ret = <<>>
    /\ wr_raised = FALSE
    /\ wr_open = TRUE
    /\ wr_dir \in {{}, {[idx |-> 1, bytes |-> "png"]}}
    /\ wr_frames = <<>>
    /\ wr_file \in {<<>>, <<[t |-> 0, whole |-> TRUE]>>}
    /\ wr_buf = <<>>
    /\ wr_logged = wr_file
    /\ wr_result \in {<<>>, <<"old">>}
    /\ wr_summary = <<>>
    /\ wr_res_arg = <<>>
    /\ wr_sum_arg = <<>>
    /\ wr_artifact = <<>>
    /\ wr_art_log = <<>>

WriterCall(op, idx, arg) ==
    /\ wr_pc = "idle"
    /\ wr_n < MaxWriterCalls
    /\ wr_n' = wr_n + 1
    /\ wr_call' = [op |-> op, idx |-> idx, arg |-> arg]

\* result_writer.py 50-64: save_frame(step_idx, screenshot_b64).
SaveFrame ==
    \E idx \in FrameIndexes : \E shot \in Payloads :
      /\ WriterCall("save_frame", idx, shot)
      /\ IF Truthy(shot) /\ b64decode(shot) # <<>>
         THEN /\ wr_dir' = {f \in wr_dir : f.idx # idx}
                           \cup {[idx |-> idx, bytes |-> b64decode(shot)[1]]}
              /\ wr_ret' = <<idx>>
              /\ wr_art_log' = <<>>
         ELSE /\ wr_dir' = wr_dir
              /\ wr_ret' = <<>>
              /\ wr_art_log' = wr_art_log
      /\ wr_frames' = save_frame(wr_frames, idx, [id |-> idx, shot |-> shot])
      /\ wr_raised' = FALSE
      /\ UNCHANGED <<wr_pc, wr_open, wr_file, wr_buf, wr_logged,
                     wr_result, wr_summary, wr_res_arg, wr_sum_arg,
                     wr_artifact, sessionVars, sideVars, classifyVars, samplerVars>>

\* result_writer.py 70-71: log_step up to the write: the line is in the
\* buffer of the handle.  On a closed handle the write raises ValueError.
LogStepWrite ==
    /\ WriterCall("log_step", 0, "")
    /\ IF wr_open
       THEN /\ wr_buf' = Append(wr_buf, [t |-> wr_n', whole |-> TRUE])
            /\ wr_pc' = "flush"
            /\ wr_raised' = FALSE
            /\ wr_art_log' = <<>>
       ELSE /\ wr_raised' = TRUE
            /\ UNCHANGED <<wr_buf, wr_pc, wr_art_log>>
    /\ UNCHANGED <<wr_ret, wr_open, wr_dir, wr_frames, wr_file, wr_logged,
                   wr_result, wr_summary, wr_res_arg, wr_sum_arg,
                   wr_artifact, sessionVars, sideVars, classifyVars, samplerVars>>

\* Variant: log_step returns after the write, the line still in the buffer.
LogStepFlush_Skipped ==
    /\ wr_pc = "flush"
    /\ wr_logged' = wr_logged \o wr_buf
    /\ wr_pc' = "idle"
    /\ UNCHANGED <<wr_n, wr_call, wr_ret, wr_raised, wr_open, wr_dir, wr_frames,
                   wr_file, wr_buf, wr_result, wr_summary, wr_res_arg, wr_sum_arg,
                   wr_artifact, wr_art_log, sessionVars, sideVars, classifyVars,
                     samplerVars>>

\* result_writer.py 72: the flush hands the buffer to the operating system,
\* then log_step returns.
LogStepFlush ==
    /\ wr_pc = "flush"
    /\ wr_file' = wr_file \o wr_buf
    /\ wr_buf' = <<>>
    /\ wr_logged' = wr_logged \o wr_buf
    /\ wr_pc' = "idle"
    /\ UNCHANGED <<wr_n, wr_call, wr_ret, wr_raised, wr_open, wr_dir, wr_frames,
                   wr_result, wr_summary, wr_res_arg, wr_sum_arg,
                   wr_artifact, wr_art_log, sessionVars, sideVars, classifyVars,
                     samplerVars>>

\* Variant: result.json is opened with "a".
WriteResult_Append ==
    \E doc \in Documents :
      /\ WriterCall("write_result", 0, doc)
      /\ wr_result' = Append(wr_result, doc)
      /\ wr_res_arg' = <<doc>>
      /\ wr_raised' = FALSE
      /\ wr_art_log' = <<>>
      /\ UNCHANGED <<wr_pc, wr_ret, wr_open, wr_dir, wr_frames, wr_file,
                     wr_buf, wr_logged, wr_summary, wr_sum_arg,
                     wr_artifact, sessionVars, sideVars, classifyVars, samplerVars>>

\* result_writer.py 76-82: write_result opens result.json with "w", which
\* empties it, and dumps the payload.
WriteResult ==
    \E doc \in Documents :
      /\ WriterCall("write_result", 0, doc)
      /\ wr_result' = <<doc>>
      /\ wr_res_arg' = <<doc>>
      /\ wr_raised' = FALSE
      /\ wr_art_log' = <<>>
      /\ UNCHANGED <<wr_pc, wr_ret, wr_open, wr_dir, wr_frames, wr_file,
                     wr_buf, wr_logged, wr_summary, wr_sum_arg,
                     wr_artifact, sessionVars, sideVars, classifyVars, samplerVars>>

\* result_writer.py 84-90: write_summary, the same on summary.json.
WriteSummary ==
    \E doc \in Documents :
      /\ WriterCall("write_summary", 0, doc)
      /\ wr_summary' = <<doc>>
      /\ wr_sum_arg' = <<doc>>
      /\ wr_raised' = FALSE
      /\ UNCHANGED <<wr_pc, wr_ret, wr_open, wr_dir, wr_frames, wr_file,
                     wr_buf, wr_logged, wr_result, wr_res_arg,
                     wr_artifact, wr_art_log, sessionVars, sideVars, classifyVars,
                     samplerVars>>

\* result_writer.py 137-141: close flushes what the buffer holds.
CloseWriter ==
    /\ WriterCall("close", 0, "")
    /\ wr_open' = FALSE
    /\ wr_file' = wr_file \o wr_buf
    /\ wr_buf' = <<>>
    /\ wr_raised' = FALSE
    /\ UNCHANGED <<wr_pc, wr_ret, wr_dir, wr_frames, wr_logged,
                   wr_result, wr_summary, wr_res_arg, wr_sum_arg,
                   wr_artifact, wr_art_log, sessionVars, sideVars, classifyVars,
                     samplerVars>>

\* The process is killed.  What the operating system holds stays; the buffer
\* of the handle is gone.  A line that was being flushed is lost, or reached
\* the file, whole or cut short.
Kill ==
    /\ wr_pc \in {"idle", "flush"}
    /\ wr_pc' = "killed"
    /\ wr_buf' = <<>>
    /\ \/ wr_file' = wr_file
       \/ /\ wr_buf # <<>>
          /\ \E w \in BOOLEAN :
               wr_file' = wr_file \o [i \in 1..Len(wr_buf) |->
                                         [wr_buf[i] EXCEPT !.whole = w]]
    /\ UNCHANGED <<wr_n, wr_call, wr_ret, wr_raised, wr_open, wr_dir, wr_frames,
                   wr_logged, wr_result, wr_summary, wr_res_arg, wr_sum_arg,
                   wr_artifact, wr_art_log, sessionVars, sideVars, classifyVars,
                     samplerVars>>

\* result_writer.py 11-12 and app.py 184-185: _iso_utc formats a timestamp
\* (tenths of a second here) to whole seconds.
_iso_utc(ts) == ts \div 10

NoTime == 0 - 1                  \* started_at / finished_at left at None
ArtifactStarts == {NoTime, 0, 12}
ArtifactFinish == 12
Clock == {3, 12}                 \* what time.time() may return

\* sorted(...glob("*.png")): the frame files by name, step_000 first.
RECURSIVE SortedFrames(_)
SortedFrames(idxs) ==
    IF idxs = {} THEN <<>>
    ELSE LET m == CHOOSE i \in idxs : \A j \in idxs : i <= j
         IN <<m>> \o SortedFrames(idxs \ {m})

ScanFrames(dir) == SortedFrames({f.idx : f \in dir})

\* result_writer.py 118-120: the in-memory list, the directory when it is
\* empty.
ArtifactFrames(mem, dir) ==
    IF mem # <<>> THEN [i \in 1..Len(mem) |-> mem[i].idx] ELSE ScanFrames(dir)

ArtifactDoc(tid, fr, start_ts, end_ts) ==
    [task_id |-> tid, run_dir |-> RunDir, frames |-> fr,
     started_at |-> _iso_utc(start_ts), finished_at |-> _iso_utc(end_ts)]

\* Variant: a timestamp of 0.0 is taken for a missing one ("started_at or ...").
Artifact_ZeroIsMissing ==
    \E started \in ArtifactStarts : \E clock \in Clock :
      /\ WriterCall("artifact", 0, "")
      /\ LET start_ts == IF started > 0 THEN started ELSE clock
             doc == ArtifactDoc(TaskId, ArtifactFrames(wr_frames, wr_dir),
                                start_ts, ArtifactFinish)
         IN /\ wr_artifact' = <<doc>>
            /\ wr_art_log' = Append(wr_art_log,
                   [op |-> "artifact", started |-> started,
                    finished |-> ArtifactFinish, out |-> <<doc>>])
      /\ wr_raised' = FALSE
      /\ UNCHANGED <<wr_pc, wr_ret, wr_open, wr_dir, wr_frames, wr_file,
                     wr_buf, wr_logged, wr_result, wr_summary, wr_res_arg,
                     wr_sum_arg, sessionVars, sideVars, classifyVars, samplerVars>>

\* result_writer.py 94-133: artifact(task_id, started_at, finished_at) writes
\* artifact.json with "w".  A timestamp that is None falls back to the stored
\* one, which nothing sets, and then to the clock.
Artifact ==
    \E started \in ArtifactStarts : \E clock \in Clock :
      /\ WriterCall("artifact", 0, "")
      /\ LET start_ts == IF started # NoTime THEN started ELSE clock
             doc == ArtifactDoc(TaskId, ArtifactFrames(wr_frames, wr_dir),
                                start_ts, ArtifactFinish)
         IN /\ wr_artifact' = <<doc>>
            /\ wr_art_log' = Append(wr_art_log,
                   [op |-> "artifact", started |-> started,
                    finished |-> ArtifactFinish, out |-> <<doc>>])
      /\ wr_raised' = FALSE
      /\ UNCHANGED <<wr_pc, wr_ret, wr_open, wr_dir, wr_frames, wr_file,
                     wr_buf, wr_logged, wr_result, wr_summary, wr_res_arg,
                     wr_sum_arg, sessionVars, sideVars, classifyVars, samplerVars>>

\* app.py 204-228: _write_artifact_json(run_dir, task_id, started_at,
\* finished_at) always scans the directory and writes the same file with "w".
WriteArtifactJson ==
    \E started \in ArtifactStarts \ {NoTime} :
      /\ WriterCall("_write_artifact_json", 0, "")
      /\ LET doc == ArtifactDoc(TaskId, ScanFrames(wr_dir), started, ArtifactFinish)
         IN /\ wr_artifact' = <<doc>>
            /\ wr_art_log' = Append(wr_art_log,
                   [op |-> "_write_artifact_json", started |-> started,
                    finished |-> ArtifactFinish, out |-> <<doc>>])
      /\ wr_raised' = FALSE
      /\ UNCHANGED <<wr_pc, wr_ret, wr_open, wr_dir, wr_frames, wr_file,
                     wr_buf, wr_logged, wr_result, wr_summary, wr_res_arg,
                     wr_sum_arg, sessionVars, sideVars, classifyVars, samplerVars>>

NextWriter ==
    \/ Artifact
    \/ WriteArtifactJson
    \/ SaveFrame
    \/ LogStepWrite
    \/ LogStepFlush
    \/ WriteResult
    \/ WriteSummary
    \/ CloseWriter
    \/ Kill

SpecWriter == InitWriter /\ [][NextWriter]_vars

\* ------------------------------------------------- run-directory names
\* A task identifier is a sequence of characters, one for each class the
\* sanitizers tell apart: "a" an allowed letter or digit, "-" the allowed
\* character that is also the replacement, " " white space (not allowed, and
\* stripped at both ends by _safe_name), "/" any other character.
MaxNameLen == 4         \* identifiers have 0..MaxNameLen characters
NameLimit == 2          \* the names are cut to this length (120 in the code)
NameChars == {"a", "-", " ", "/"}
Allowed == {"a", "-"}
Names == UNION {[1..n -> NameChars] : n \in 0..MaxNameLen}

\* str.strip(): white space removed at both ends.
RECURSIVE LStrip(_)
LStrip(s) == IF s # <<>> /\ Head(s) = " " THEN LStrip(Tail(s)) ELSE s

RECURSIVE RStrip(_)
RStrip(s) ==
    IF s # <<>> /\ s[Len(s)] = " " THEN RStrip(SubSeq(s, 1, Len(s) - 1)) ELSE s

Strip(s) == RStrip(LStrip(s))

\* re.sub(r"[^A-Za-z0-9_.-]+", "-", s): every maximal run of characters that
\* are not allowed becomes one "-".
RECURSIVE SkipRun(_)
SkipRun(s) == IF s # <<>> /\ Head(s) \notin Allowed THEN SkipRun(Tail(s)) ELSE s

RECURSIVE SubRuns(_)
SubRuns(s) ==
    IF s = <<>> THEN <<>>
    ELSE IF Head(s) \in Allowed THEN <<Head(s)>> \o SubRuns(Tail(s))
    ELSE <<"-">> \o SubRuns(SkipRun(s))

\* Variant: the name is not cut.
_safe_name_Uncut(s) == SubRuns(Strip(s))

\* app.py 37-40.
_safe_name(s) ==
    LET t == SubRuns(Strip(s))
    IN IF Len(t) > NameLimit THEN SubSeq(t, 1, NameLimit) ELSE t

Min(a, b) == IF a < b THEN a ELSE b

\* runner.py 26-27: no strip, the slice [:120].
_safe(s) == LET t == SubRuns(s) IN SubSeq(t, 1, Min(Len(t), NameLimit))

Sanitizers == {"_safe_name", "_safe"}
Sanitize(fn, s) == IF fn = "_safe_name" THEN _safe_name(s) ELSE _safe(s)

InitNames ==
    /\ SessionIdle
    /\ ClassifyIdle
    /\ SamplerIdle
    /\ WriterIdle
    /\ RunDirIdle
    /\ LoopIdle
    /\ UrlIdle
    /\ nm_fn = ""
    /\ nm_in \in Names
    /\ nm_out = <<>>

\* The identifier is sanitized for the path.
SanitizeName ==
    /\ nm_out = <<>>
    /\ \E fn \in Sanitizers :
         /\ nm_fn' = fn
         /\ nm_out' = <<Sanitize(fn, nm_in)>>
    /\ UNCHANGED <<nm_in, runDirVars, loopVars, urlVars, sessionVars, classifyVars, samplerVars,
                   writerVars>>

\* The sanitized name is sanitized again.
SanitizeAgain ==
    /\ Len(nm_out) = 1
    /\ nm_out' = Append(nm_out, Sanitize(nm_fn, nm_out[1]))
    /\ UNCHANGED <<nm_fn, nm_in, runDirVars, loopVars, urlVars, sessionVars, classifyVars,
                   samplerVars, writerVars>>

NextNames ==
    \/ SanitizeName
    \/ SanitizeAgain

SpecNames == InitNames /\ [][NextNames]_vars

\* ------------------------------------------- sessions making run directories
\* Sessions of one or more server processes that share RUN_BASE (app.py 33:
\* the HTTP app and the A2A server default to the same directory).  Each makes
\* its run directory and refreshes 'latest' (_make_run_dir), opens its writer,
\* logs a record and writes result.json.  File-system calls of different
\* sessions interleave one by one.
NumSessions == 2        \* sessions started
MaxUtcSecond == 1       \* the clock runs over the seconds 0..MaxUtcSecond
Sessions == 1..NumSessions
RunTasks == {<<"a">>, <<"a", " ">>, <<"-">>}
OldRun == <<<<"a">>, 0 - 1>>     \* the run directory of an earlier run

InitRunDirs ==
    /\ SessionIdle
    /\ ClassifyIdle
    /\ SamplerIdle
    /\ WriterIdle
    /\ NamesIdle
    /\ LoopIdle
    /\ UrlIdle
    /\ rd_now = 0
    /\ rd_pc = [s \in Sessions |-> "start"]
    /\ rd_task \in [Sessions -> RunTasks]
    /\ rd_dir = [s \in Sessions |-> <<>>]
    /\ rd_latest \in {<<>>, <<OldRun>>}
    /\ rd_last = 0
    /\ rd_trace = <<>>
    /\ rd_result = {}

\* The UTC second passes.
SecondPasses ==
    /\ rd_now < MaxUtcSecond
    /\ rd_now' = rd_now + 1
    /\ UNCHANGED <<rd_pc, rd_task, rd_dir, rd_latest, rd_last, rd_trace,
                   rd_result, namesVars, loopVars, urlVars, sessionVars, classifyVars,
                   samplerVars, writerVars>>

\* app.py 45-47: the name from the sanitized identifier and the second; mkdir
\* with exist_ok=True takes a directory that is already there.
MakeRunDir(s) ==
    /\ rd_pc[s] = "start"
    /\ rd_dir' = [rd_dir EXCEPT ![s] = << <<_safe_name(rd_task[s]), rd_now>> >>]
    /\ rd_pc' = [rd_pc EXCEPT ![s] = "check"]
    /\ UNCHANGED <<rd_now, rd_task, rd_latest, rd_last, rd_trace, rd_result,
                   namesVars, loopVars, urlVars, sessionVars, classifyVars, samplerVars,
                   writerVars>>

\* app.py 50: latest.exists() or latest.is_symlink().
CheckLatest(s) ==
    /\ rd_pc[s] = "check"
    /\ rd_pc' = [rd_pc EXCEPT ![s] = IF rd_latest # <<>> THEN "unlink"
                                     ELSE "symlink"]
    /\ UNCHANGED <<rd_now, rd_task, rd_dir, rd_latest, rd_last, rd_trace,
                   rd_result, namesVars, loopVars, urlVars, sessionVars, classifyVars,
                   samplerVars, writerVars>>

\* app.py 51: latest.unlink(); FileNotFoundError when another session removed
\* it meanwhile, which line 54 swallows, so that symlink_to is skipped.
UnlinkLatest(s) ==
    /\ rd_pc[s] = "unlink"
    /\ IF rd_latest # <<>>
       THEN /\ rd_latest' = <<>>
            /\ rd_pc' = [rd_pc EXCEPT ![s] = "symlink"]
       ELSE /\ rd_latest' = rd_latest
            /\ rd_pc' = [rd_pc EXCEPT ![s] = "open"]
    /\ UNCHANGED <<rd_now, rd_task, rd_dir, rd_last, rd_trace, rd_result,
                   namesVars, loopVars, urlVars, sessionVars, classifyVars, samplerVars,
                   writerVars>>

\* Variant: no try/except around the refresh.
SymlinkLatest_Unguarded(s) ==
    /\ rd_pc[s] = "symlink"
    /\ IF rd_latest = <<>>
       THEN /\ rd_latest' = rd_dir[s]
            /\ rd_last' = s
            /\ rd_pc' = [rd_pc EXCEPT ![s] = "open"]
       ELSE /\ UNCHANGED <<rd_latest, rd_last>>
            /\ rd_pc' = [rd_pc EXCEPT ![s] = "failed"]
    /\ UNCHANGED <<rd_now, rd_task, rd_dir, rd_trace, rd_result,
                   namesVars, loopVars, urlVars, sessionVars, classifyVars, samplerVars,
                   writerVars>>

\* app.py 52-55: latest.symlink_to(run_dir); FileExistsError when another
\* session created the link meanwhile, swallowed.
SymlinkLatest(s) ==
    /\ rd_pc[s] = "symlink"
    /\ IF rd_latest = <<>>
       THEN /\ rd_latest' = rd_dir[s]
            /\ rd_last' = s
       ELSE UNCHANGED <<rd_latest, rd_last>>
    /\ rd_pc' = [rd_pc EXCEPT ![s] = "open"]
    /\ UNCHANGED <<rd_now, rd_task, rd_dir, rd_trace, rd_result,
                   namesVars, loopVars, urlVars, sessionVars, classifyVars, samplerVars,
                   writerVars>>

\* app.py 427, result_writer.py 27-35: ResultWriter(run_dir) takes the
\* directory as it is and opens trace.jsonl for appending.
OpenRunWriter(s) ==
    /\ rd_pc[s] = "open"
    /\ rd_pc' = [rd_pc EXCEPT ![s] = "log"]
    /\ UNCHANGED <<rd_now, rd_task, rd_dir, rd_latest, rd_last, rd_trace,
                   rd_result, namesVars, loopVars, urlVars, sessionVars, classifyVars,
                   samplerVars, writerVars>>

\* result_writer.py 66-72: a record of the session goes to the end of the
\* trace.jsonl of its directory.
LogRunStep(s) ==
    /\ rd_pc[s] = "log"
    /\ rd_trace' = Append(rd_trace, [dir |-> rd_dir[s][1], by |-> s])
    /\ rd_pc' = [rd_pc EXCEPT ![s] = "result"]
    /\ UNCHANGED <<rd_now, rd_task, rd_dir, rd_latest, rd_last, rd_result,
                   namesVars, loopVars, urlVars, sessionVars, classifyVars, samplerVars,
                   writerVars>>

\* result_writer.py 76-82: result.json of the directory is overwritten.
WriteRunResult(s) ==
    /\ rd_pc[s] = "result"
    /\ rd_result' = {r \in rd_result : r.dir # rd_dir[s][1]}
                    \cup {[dir |-> rd_dir[s][1], by |-> s]}
    /\ rd_pc' = [rd_pc EXCEPT ![s] = "done"]
    /\ UNCHANGED <<rd_now, rd_task, rd_dir, rd_latest, rd_last, rd_trace,
                   namesVars, loopVars, urlVars, sessionVars, classifyVars, samplerVars,
                   writerVars>>

NextRunDirs ==
    \/ SecondPasses
    \/ \E s \in Sessions : MakeRunDir(s)
    \/ \E s \in Sessions : CheckLatest(s)
    \/ \E s \in Sessions : UnlinkLatest(s)
    \/ \E s \in Sessions : SymlinkLatest(s)
    \/ \E s \in Sessions : OpenRunWriter(s)
    \/ \E s \in Sessions : LogRunStep(s)
    \/ \E s \in Sessions : WriteRunResult(s)

SpecRunDirs == InitRunDirs /\ [][NextRunDirs]_vars

\* ------------------------------------------- sessions on one event loop
\* Sessions of one server process.  The code of a coroutine between two awaits
\* runs on the loop thread; a provider call is network I/O awaited on the
\* loop; an environment call is handed to the default executor by
\* run_in_thread (app.py 59-62), whose pool has a fixed number of threads
\* (min(32, cpu_count + 4) in the library); OSWorldAdapter(...) (app.py 463) is
\* called directly and occupies the loop thread until it returns.
Workers == 1            \* threads of the default executor
StageSeq == <<"white_reset", "env_new", "env_reset", "act", "env_step", "env_close">>
Finished == Len(StageSeq) + 1
StageKind(i) ==
    IF i = Finished THEN "done"
    ELSE IF StageSeq[i] \in {"white_reset", "act"} THEN "net"
    ELSE IF StageSeq[i] = "env_new" THEN "construct"
    ELSE "submit"

InitLoop ==
    /\ SessionIdle
    /\ ClassifyIdle
    /\ SamplerIdle
    /\ WriterIdle
    /\ NamesIdle
    /\ RunDirIdle
    /\ UrlIdle
    /\ lp_stage = [s \in Sessions |-> 1]
    /\ lp_pc = [s \in Sessions |-> StageKind(1)]
    /\ lp_loop = 0

BusyWorkers == Cardinality({s \in DOMAIN lp_pc : lp_pc[s] = "in_worker"})

\* The continuation of session s runs up to its next call.
Advance(s) ==
    /\ lp_stage' = [lp_stage EXCEPT ![s] = lp_stage[s] + 1]
    /\ lp_pc' = [lp_pc EXCEPT ![s] = StageKind(lp_stage[s] + 1)]

\* app.py 457-460, 491-494: the provider answered (or failed); the coroutine
\* is resumed when the loop thread is free.
ProviderReturns(s) ==
    /\ lp_pc[s] = "net"
    /\ lp_loop = 0
    /\ Advance(s)
    /\ UNCHANGED <<lp_loop, namesVars, runDirVars, urlVars, sessionVars, classifyVars,
                   samplerVars, writerVars>>

\* app.py 463: the constructor starts, on the loop thread.
BeginConstruct(s) ==
    /\ lp_pc[s] = "construct"
    /\ lp_loop = 0
    /\ lp_loop' = s
    /\ lp_pc' = [lp_pc EXCEPT ![s] = "constructing"]
    /\ UNCHANGED <<lp_stage, namesVars, runDirVars, urlVars, sessionVars, classifyVars,
                   samplerVars, writerVars>>

\* app.py 463-469: the constructor returns.
EndConstruct(s) ==
    /\ lp_pc[s] = "constructing"
    /\ lp_loop' = 0
    /\ Advance(s)
    /\ UNCHANGED <<namesVars, runDirVars, urlVars, sessionVars, classifyVars,
                   samplerVars, writerVars>>

\* Variant: the environment call is made on the loop thread.
SubmitCall_OnLoop(s) ==
    /\ lp_pc[s] = "submit"
    /\ lp_loop = 0
    /\ lp_loop' = s
    /\ lp_pc' = [lp_pc EXCEPT ![s] = "in_worker"]
    /\ UNCHANGED <<lp_stage, namesVars, runDirVars, urlVars, sessionVars, classifyVars,
                   samplerVars, writerVars>>

\* app.py 61: run_in_executor(None, ...) hands the call to the pool: a free
\* thread takes it, otherwise it waits in the pool's queue.
SubmitCall(s) ==
    /\ lp_pc[s] = "submit"
    /\ lp_loop = 0
    /\ lp_pc' = [lp_pc EXCEPT ![s] = IF BusyWorkers < Workers THEN "in_worker"
                                     ELSE "queued"]
    /\ UNCHANGED <<lp_stage, lp_loop, namesVars, runDirVars, urlVars, sessionVars,
                   classifyVars, samplerVars, writerVars>>

\* A thread of the pool takes a waiting call.
WorkerTakes(s) ==
    /\ lp_pc[s] = "queued"
    /\ BusyWorkers < Workers
    /\ lp_pc' = [lp_pc EXCEPT ![s] = "in_worker"]
    /\ UNCHANGED <<lp_stage, lp_loop, namesVars, runDirVars, urlVars, sessionVars,
                   classifyVars, samplerVars, writerVars>>

\* The blocking call returns (or raises) in its thread.
WorkerReturns(s) ==
    /\ lp_pc[s] = "in_worker"
    /\ lp_pc' = [lp_pc EXCEPT ![s] = "resume"]
    /\ lp_loop' = IF lp_loop = s THEN 0 ELSE lp_loop
    /\ UNCHANGED <<lp_stage, namesVars, runDirVars, urlVars, sessionVars, classifyVars,
                   samplerVars, writerVars>>

\* app.py 61: the await of the future ends; the coroutine is resumed when the
\* loop thread is free.
ResumeAfterCall(s) ==
    /\ lp_pc[s] = "resume"
    /\ lp_loop = 0
    /\ Advance(s)
    /\ UNCHANGED <<lp_loop, namesVars, runDirVars, urlVars, sessionVars, classifyVars,
                   samplerVars, writerVars>>

SessionStep(s) ==
    \/ ProviderReturns(s)
    \/ BeginConstruct(s)
    \/ EndConstruct(s)
    \/ SubmitCall(s)
    \/ WorkerTakes(s)
    \/ WorkerReturns(s)
    \/ ResumeAfterCall(s)

NextLoop ==
    \/ \E s \in Sessions : ProviderReturns(s)
    \/ \E s \in Sessions : BeginConstruct(s)
    \/ \E s \in Sessions : EndConstruct(s)
    \/ \E s \in Sessions : SubmitCall(s)
    \/ \E s \in Sessions : WorkerTakes(s)
    \/ \E s \in Sessions : WorkerReturns(s)
    \/ \E s \in Sessions : ResumeAfterCall(s)

SpecLoop == InitLoop /\ [][NextLoop]_vars

\* ------------------------------------- the provider URL of an A2A message
\* An instruction is a sequence of items: the two tags, and the characters
\* the parsers tell apart (a backslash, the letter s, a blank, a slash, any
\* other character of a URL).  A URL is such a sequence too; <<>> stands for
\* None (every parser turns an empty text into None).
MaxInstrLen == 5        \* an instruction has 0..MaxInstrLen items
OpenTag == "<white_agent_url>"
CloseTag == "</white_agent_url>"
InstrItems == {OpenTag, CloseTag, "\\", "s", " ", "/", "u"}
Instructions == UNION {[1..n -> InstrItems] : n \in 0..MaxInstrLen}

\* app.py 22-25: WHITE_AGENT_URL, the process-wide default; no instruction of
\* the model spells it.
WHITE_AGENT_URL == <<"d">>

\* str.find(item, start): the least index >= start holding the item, 0 for -1.
Find(s, item, start) ==
    LET hits == {i \in start..Len(s) : s[i] = item} IN
    IF hits = {} THEN 0 ELSE CHOOSE i \in hits : \A j \in hits : i <= j

\* a2a_app.py 35-46: the text between the first opening tag and the first
\* closing tag after it, stripped; None without both tags or when empty.
_extract_white_agent_url(instruction) ==
    LET open == Find(instruction, OpenTag, 1)
        close == IF open = 0 THEN 0 ELSE Find(instruction, CloseTag, open + 1) IN
    IF open = 0 \/ close = 0 THEN <<>>
    ELSE Strip(SubSeq(instruction, open + 1, close - 1))

\* The number of consecutive letters s from index i on: what "s*" takes.
SRun(s, i) ==
    LET stops == {j \in i..(Len(s) + 1) : j > Len(s) \/ s[j] # "s"} IN
    (CHOOSE j \in stops : \A k \in stops : j <= k) - i

\* The pattern of app.py 236 from index i: the opening tag, a backslash, any
\* letters s, a shortest text, a backslash, any letters s, the closing tag
\* (in the raw string, "\\s*" is an escaped backslash followed by "s*").
\* The set of the indices of the second backslash that complete a match.
TagMatches(s, i) ==
    IF i + 1 > Len(s) \/ s[i] # OpenTag \/ s[i + 1] # "\\" THEN {}
    ELSE LET g == i + 2 + SRun(s, i + 2) IN
         {p \in g..(Len(s) - 1) :
             /\ s[p] = "\\"
             /\ p + 1 + SRun(s, p + 1) <= Len(s)
             /\ s[p + 1 + SRun(s, p + 1)] = CloseTag}

\* app.py 232-240: re.search takes the leftmost match and its shortest group.
_parse_white_url_from_instruction(instruction) ==
    LET starts == {i \in 1..Len(instruction) : TagMatches(instruction, i) # {}} IN
    IF starts = {} THEN <<>>
    ELSE LET i == CHOOSE a \in starts : \A b \in starts : a <= b
             g == i + 2 + SRun(instruction, i + 2)
             ends == TagMatches(instruction, i)
             p == CHOOSE a \in ends : \A b \in ends : a <= b IN
         Strip(SubSeq(instruction, g, p - 1))

\* "a or b" on URLs.
OrUrl(a, b) == IF a # <<>> THEN a ELSE b

\* app.py 393-402: the URL of the session.  env_cfg comes from the
\* instruction alone and is {} for an instruction without an <env_config>
\* element, so its two keys give None.
ResolveWhiteUrl(instruction) ==
    OrUrl(_parse_white_url_from_instruction(instruction), WHITE_AGENT_URL)

\* str.rstrip("/")
RECURSIVE RStripSlash(_)
RStripSlash(s) ==
    IF s # <<>> /\ s[Len(s)] = "/" THEN RStripSlash(SubSeq(s, 1, Len(s) - 1)) ELSE s

InitUrl ==
    /\ SessionIdle
    /\ ClassifyIdle
    /\ SamplerIdle
    /\ WriterIdle
    /\ NamesIdle
    /\ RunDirIdle
    /\ LoopIdle
    /\ ur_pc = "execute"
    /\ ur_instr \in Instructions
    /\ ur_url = <<>>
    /\ ur_chosen = FALSE
    /\ ur_run_dir = FALSE
    /\ ur_base = <<>>
    /\ ur_posts = <<>>

UrlOthers == <<sessionVars, classifyVars, samplerVars, writerVars, namesVars,
               runDirVars, loopVars>>

\* a2a_app.py 77-85: the URL is parsed out of the instruction; ValueError
\* without it.
ExtractUrl ==
    /\ ur_pc = "execute"
    /\ ur_url' = _extract_white_agent_url(ur_instr)
    /\ ur_pc' = IF ur_url' = <<>> THEN "raised" ELSE "region"
    /\ UNCHANGED <<ur_instr, ur_chosen, ur_run_dir, ur_base, ur_posts, UrlOthers>>

\* a2a_app.py 88-90: AWS_REGION is required.
RequireRegion ==
    /\ ur_pc = "region"
    /\ \E region_set \in BOOLEAN :
         ur_pc' = IF region_set THEN "choose" ELSE "raised"
    /\ UNCHANGED <<ur_instr, ur_url, ur_chosen, ur_run_dir, ur_base, ur_posts,
                   UrlOthers>>

\* a2a_app.py 93-114: env_cfg (with the URL in it) goes to
\* _choose_osworld_task, which returns a task or raises; the request is built
\* from the task and the instruction.
ChooseForUrl ==
    /\ ur_pc = "choose"
    /\ ur_chosen' = TRUE
    /\ \E found \in BOOLEAN :
         ur_pc' = IF found THEN "act_core" ELSE "raised"
    /\ UNCHANGED <<ur_instr, ur_url, ur_run_dir, ur_base, ur_posts, UrlOthers>>

\* a2a_app.py 117 and app.py 387-443: _act_core resolves the URL from the
\* instruction of the request, makes the run directory and the client
\* (white_client.py 9-10).
ActCoreUrl ==
    /\ ur_pc = "act_core"
    /\ \E ok \in BOOLEAN :
         IF ok
         THEN /\ ur_run_dir' = TRUE
              /\ ur_base' = RStripSlash(ResolveWhiteUrl(ur_instr))
              /\ ur_pc' = "white_reset"
         ELSE /\ ur_pc' = "raised"
              /\ UNCHANGED <<ur_run_dir, ur_base>>
    /\ UNCHANGED <<ur_instr, ur_url, ur_chosen, ur_posts, UrlOthers>>

\* app.py 457-460 and white_client.py 18-22: POST base_url/reset.
PostReset ==
    /\ ur_pc = "white_reset"
    /\ ur_posts' = Append(ur_posts, [path |-> "/reset", base |-> ur_base])
    /\ ur_pc' = "act"
    /\ UNCHANGED <<ur_instr, ur_url, ur_chosen, ur_run_dir, ur_base, UrlOthers>>

\* app.py 484-489 and white_client.py 24-33: POST base_url/act.
PostAct ==
    /\ ur_pc = "act"
    /\ ur_posts' = Append(ur_posts, [path |-> "/act", base |-> ur_base])
    /\ ur_pc' = "acted"
    /\ UNCHANGED <<ur_instr, ur_url, ur_chosen, ur_run_dir, ur_base, UrlOthers>>

NextUrl ==
    \/ ExtractUrl
    \/ RequireRegion
    \/ ChooseForUrl
    \/ ActCoreUrl
    \/ PostReset
    \/ PostAct

SpecUrl == InitUrl /\ [][NextUrl]_vars

\* ------------------------------------------------- vocabulary of the claims
Ops(cs) == [i \in 1..Len(cs) |-> cs[i].op]
Count(cs, op) == Cardinality({i \in 1..Len(cs) : cs[i].op = op})
EnvStepOps == {"env_step", "env_wait"}
LoopOps == {"act", "env_step", "env_wait"}

Closing == pc \in {"finally", "writer_close", "returned"}
IsDoneDirective(a) == a.type = "special" /\ Upper(a.name) = "DONE"
IsWaitDirective(a) == a.type = "special" /\ Upper(a.name) = "WAIT"
ActFailed == exc # <<>> /\ exc[1].kind = "HTTPException"
ResetFailed == exc # <<>> /\ Count(calls, "act") = 0

ResultFields == {"task_id", "success", "reward", "steps", "wall_time_sec",
                 "logs_dir", "details"}
WellFormed(r) ==
    /\ DOMAIN r = ResultFields
    /\ r.task_id = TaskId
    /\ r.success \in BOOLEAN
    /\ r.reward \in Int
    /\ r.steps \in Nat
    /\ r.wall_time_sec \in Nat
    /\ r.logs_dir = RunDir
    /\ DOMAIN r.details = {"failure_type", "message", "artifact_index"}

\* The terminal outcome a result stands for.
Outcome(r, d) ==
    IF r.details.failure_type # "" THEN "fail"
    ELSE IF r.success THEN "success"
    ELSE IF d THEN "fail"
    ELSE "budget"

\* ------------------------------------------------------------------ C1
\* C1: a session that created its run directory has result.json in it when
\* _act_core returns, whichever way the session ended.
C1_ResultAlwaysWritten ==
    pc = "returned" => (run_dir /\ Len(result_json) = 1)

\* A session that ended in an environment step error has returned.
C1_Witness ==
    /\ pc = "returned"
    /\ run_dir
    /\ exc # <<>>
    /\ steps = 2
    /\ Len(result_json) = 1

\* ------------------------------------------------------------------ C2
\* C2 as stated: no exception ever leaves _act_core; every request ends with a
\* well-formed result, and a caught error gives success = false.
C2_NeverEscapes ==
    /\ escaped = <<>>
    /\ pc # "raised"
    /\ (pc = "returned" => (Len(response) = 1 /\ WellFormed(response[1])))

\* C2 amended: an exception leaves _act_core only before the run directory
\* exists and before any external call (backend guard, missing task
\* configuration); once the run directory exists every error of the
\* environment construction, the reset and the loop ends in a returned,
\* well-formed result with success = false.
C2_EscapesOnlyBeforeSession ==
    /\ (escaped # <<>> => (pc = "raised" /\ ~run_dir /\ calls = <<>> /\ response = <<>>))
    /\ (pc = "raised" => escaped # <<>>)
    /\ (run_dir => escaped = <<>>)
    /\ (pc = "returned" => (Len(response) = 1 /\ WellFormed(response[1])))
    /\ ((Closing /\ exc # <<>>) =>
            (Len(response) = 1 /\ ~response[1].success /\ response[1].reward = 0))

\* An environment reset error was turned into a returned result.
C2_Witness ==
    /\ pc = "returned"
    /\ ResetFailed
    /\ Count(calls, "env_reset") = 1
    /\ ~response[1].success

\* ------------------------------------------------------------------ C3
\* C3 as stated: the outcome, once reached, never changes, and on every path
\* the environment close and the trace-handle close both run after it.
C3_CloseOnEveryPath ==
    [][ /\ (response # <<>> => response' = response)
        /\ (pc' = "returned" =>
              (~trace_open' /\ Len(response') = 1 /\ Count(calls', "env_close") = 1))
      ]_vars

\* C3 amended: every session that opened its run directory ends with exactly
\* one result, whose outcome is success, budget or fail; once the result is
\* computed neither it nor its outcome changes and it is the one returned; the
\* closing block runs after it on every path: the trace handle is always
\* closed, and the environment close is attempted exactly when the adapter was
\* constructed (not when its construction raised).
C3_OutcomeFinalThenClosed ==
    [][ /\ (response # <<>> =>
              /\ response' = response
              /\ Outcome(response'[1], done') = Outcome(response[1], done)
              /\ pc' # "raised")
        /\ (response' # <<>> => Outcome(response'[1], done') \in {"success", "budget", "fail"})
        /\ (Count(calls', "env_close") > Count(calls, "env_close") => response # <<>>)
        /\ ((trace_open /\ ~trace_open') => response # <<>>)
        /\ (pc' = "returned" =>
              /\ ~trace_open'
              /\ Len(response') = 1
              /\ Count(calls', "env_close") = (IF env' = "built" THEN 1 ELSE 0)
              /\ (env' = "built" => calls'[Len(calls')].op = "env_close"))
      ]_vars

\* A session whose adapter construction raised has returned without an
\* environment close, its trace handle closed.
C3_Witness ==
    /\ pc = "returned"
    /\ env = "none"
    /\ ~trace_open
    /\ Count(calls, "env_close") = 0
    /\ Outcome(response[1], done) = "fail"

\* ------------------------------------------------------------------ C4
\* C4: at most max_steps iterations are executed, and an iteration begins
\* (the provider is queried) only while steps < max_steps, elapsed <
\* max_seconds and done is false.
C4_BudgetRespected ==
    [][ /\ (steps' # steps =>
              (steps' = steps + 1 /\ steps < max_steps
               /\ (now - t0) < max_seconds /\ ~done))
        /\ (Count(calls', "act") # Count(calls, "act") =>
              (~done /\ (now - t0) < max_seconds
               /\ Count(calls', "act") = steps /\ steps <= max_steps))
        /\ steps' <= max_steps
      ]_vars

\* The loop was left on the time budget with steps to spare.
C4_Witness ==
    /\ pc = "assemble"
    /\ ~done
    /\ steps > 0
    /\ steps < max_steps
    /\ (now - t0) >= max_seconds

\* ------------------------------------------------------------------ C5
\* C5 as stated: at the end of a session the trace holds one StepRecord per
\* iteration whose step counter was incremented, aborted iterations included.
C5_RecordPerIteration ==
    pc = "returned" => Len(trace) = steps

\* C5 amended: the trace holds one StepRecord per iteration that ran to its
\* end; an iteration aborted by a provider or environment error has
\* incremented the step counter and appended no StepRecord, so the trace then
\* has steps - 1 records.
C5_RecordPerCompletedIteration ==
    run_dir =>
        Len(trace) = (IF pc \in {"act", "dispatch", "record"} \/ (exc # <<>> /\ steps > 0)
                      THEN steps - 1 ELSE steps)

\* A session was aborted in its second iteration: one record, steps = 2.
C5_Witness ==
    /\ pc = "returned"
    /\ exc # <<>>
    /\ steps = 2
    /\ Len(trace) = 1
    /\ response[1].steps = 2

\* ------------------------------------------------------------------ C6
\* C6: the StepRecords carry the indices 1, 2, 3, ...; the reset observation
\* is saved as frame 0; the frame saved in an iteration has the index of that
\* iteration's StepRecord and shows the observation current in it.
C6_IndicesAligned ==
    /\ \A i \in 1..Len(trace) : trace[i].t = i
    /\ \A j \in 1..Len(frames) :
         /\ (j > 1 => frames[j].idx > frames[j - 1].idx)
         /\ (frames[j].idx = 0 => (j = 1 /\ frames[j].obs = 0))
         /\ (frames[j].idx > 0 =>
               /\ frames[j].idx \in 1..Len(trace)
               /\ LET rec == trace[frames[j].idx] IN
                    IF EnvCallOf(rec.action)[1] = "none"
                    THEN frames[j].obs < rec.t
                    ELSE frames[j].obs = rec.t)
    /\ ((pc = "loop" /\ steps = 0 /\ obs.shot = "ok") =>
            frames = <<[idx |-> 0, obs |-> 0]>>)

\* Reset frame and the frames of two recorded steps are on disk.
C6_Witness ==
    /\ Len(trace) = 2
    /\ Len(frames) = 3
    /\ frames[1].idx = 0
    /\ frames[3].idx = 2

\* ------------------------------------------------------------------ C7
\* C7: when the provider answers special/DONE at step n, the loop ends at
\* step n: no further provider call, and the result has steps = n,
\* reward = 0.0 and success = false.
C7_DoneEndsLoop ==
    \A i \in 1..Len(trace) :
        IsDoneDirective(trace[i].action) =>
            /\ i = Len(trace)
            /\ steps = i
            /\ Count(calls, "act") = i
            /\ pc \in {"loop", "assemble", "finally", "writer_close", "returned"}
            /\ (Closing =>
                  /\ response[1].steps = i
                  /\ response[1].reward = 0
                  /\ ~response[1].success
                  /\ response[1].details.failure_type = "")

\* DONE at step 1 of a session with two steps and time to spare.
C7_Witness ==
    /\ pc = "returned"
    /\ max_steps = 2
    /\ (now - t0) < max_seconds
    /\ Len(trace) = 1
    /\ IsDoneDirective(trace[1].action)

\* ------------------------------------------------------------------ C8
\* Every directive the session received is special/WAIT.
ProviderAlwaysWait ==
    /\ \A i \in 1..Len(trace) : IsWaitDirective(trace[i].action)
    /\ (steps > Len(trace) => (~ActFailed /\ IsWaitDirective(action)))

\* C8 as stated: with WAIT at every step and max_steps = N the session writes
\* exactly N StepRecords, ends on budget exhaustion and reports failure.
C8_WaitGivesNRecords ==
    (pc = "returned" /\ ProviderAlwaysWait) =>
        (Len(trace) = max_steps /\ ~done /\ ~response[1].success)

\* C8 amended: with WAIT at every step and max_steps = N, if no call raises,
\* no wait reports done and the time budget is not used up, the session
\* writes exactly N StepRecords, ends on the step budget and reports
\* success = false with reward 0.0.
C8_WaitGivesNRecordsWithinTime ==
    (/\ pc = "returned"
     /\ ProviderAlwaysWait
     /\ exc = <<>>
     /\ \A i \in 1..Len(trace) : ~trace[i].done
     /\ (now - t0) < max_seconds) =>
        /\ Len(trace) = max_steps
        /\ steps = max_steps
        /\ ~done
        /\ ~response[1].success
        /\ response[1].reward = 0
        /\ response[1].details.failure_type = ""

\* Two WAIT steps, one of them with a positive intermediate reward.
C8_Witness ==
    /\ pc = "returned"
    /\ max_steps = 2
    /\ exc = <<>>
    /\ Len(trace) = 2
    /\ ProviderAlwaysWait
    /\ ~done
    /\ trace[1].reward = 1
    /\ (now - t0) < max_seconds

\* ------------------------------------------------------------------ C9
\* C9: an error of the provider's act call ends the session with
\* failure_type = white_error whatever the text of the error, and no provider
\* or environment step call follows.
C9_ActErrorIsWhiteError ==
    (Closing /\ ActFailed) =>
        /\ response[1].details.failure_type = "white_error"
        /\ calls[Len(calls)].op \in {"act", "env_close"}
        /\ Count(calls, "act") = steps

\* ------------------------------------------------------------------ C10
\* C10: when the adapter construction or the reset raises, no provider act
\* call and no environment step or wait is made, and the result has
\* success = false, reward = 0.0, steps = 0, a failure type and the message.
C10_ResetFailureGoesToFail ==
    (ResetFailed /\ pc \in {"except", "finally", "writer_close", "returned"}) =>
        /\ \A i \in 1..Len(calls) : calls[i].op \notin LoopOps
        /\ steps = 0
        /\ trace = <<>>
        /\ (Closing =>
              /\ ~response[1].success
              /\ response[1].reward = 0
              /\ response[1].steps = 0
              /\ response[1].details.failure_type
                    \in {"env_setup", "white_error", "unauthorized", "runtime_error"}
              /\ response[1].details.message = exc[1].msg
              /\ result_json[1].details.failure_type
                    = response[1].details.failure_type)

\* The reset raised with a text naming no known phrase; the session returned.
C10_Witness ==
    /\ pc = "returned"
    /\ ResetFailed
    /\ Count(calls, "env_reset") = 1
    /\ exc[1].msg = {}
    /\ response[1].details.failure_type = "runtime_error"

\* ---------------------------------------------------------------------- C11
FailureClasses == {"env_setup", "white_error", "unauthorized", "runtime_error"}

\* C11: classification is total and a function of the message: every call
\* returns one of the four classes, it returns runtime_error exactly when the
\* lower-cased message contains none of the known phrases, and two calls on
\* the same message return the same class.
C11_ClassificationTotal ==
    \A i \in 1..Len(cf_out) :
        /\ cf_out[i] \in FailureClasses
        /\ (cf_out[i] = "runtime_error") <=> (LowerText(cf_text) \cap Phrases = {})
        /\ cf_out[i] = cf_out[1]

C11_Witness ==
    /\ Len(cf_out) = 2
    /\ cf_text = {"UNAUTHORIZED", "timeout"}
    /\ cf_out[2] = "unauthorized"

\* ---------------------------------------------------------------------- C12
\* C12: every session that returns has attempted the environment close and
\* the writer close, with result.json written.
C12_BothClosesAlways ==
    pc = "returned" =>
        /\ Count(calls, "env_close") = 1
        /\ ~trace_open
        /\ result_json # <<>>

\* C12 amended: the closing block starts only after result.json is written;
\* its steps neither raise nor change result.json or the result returned; the
\* writer close is always reached, and the environment close is attempted
\* before it whenever the adapter was constructed (it is skipped when the
\* construction raised).
C12_CleanupAfterResult ==
    [][ /\ (pc' \in {"finally", "writer_close", "returned"} =>
              Len(result_json') = 1 /\ Len(response') = 1)
        /\ (pc \in {"finally", "writer_close"} =>
              /\ result_json' = result_json
              /\ response' = response
              /\ escaped' = <<>>
              /\ pc' \in {"writer_close", "returned"})
        /\ (pc = "finally" /\ env = "built" => Count(calls', "env_close") = 1)
        /\ (pc' = "returned" => pc = "writer_close" /\ ~trace_open')
      ]_vars

\* A session whose adapter was built has closed the environment, then the
\* trace handle, and returned with result.json in place.
C12_Witness ==
    /\ pc = "returned"
    /\ env = "built"
    /\ calls[Len(calls)].op = "env_close"
    /\ ~trace_open
    /\ Len(result_json) = 1
    /\ result_json[1].success

\* ---------------------------------------------------------------------- C13
LastBy(entry) == sm_last # <<>> /\ sm_last[1].entry = entry

\* C13: with the corpus content, the slice, the seed, k and the exclude
\* predicate fixed, two selections through the same entry point return the
\* same list, whatever the order of the domains and ids in the corpus file.
C13_SelectionIgnoresFileOrder ==
    (sm_prev # <<>> /\ sm_last # <<>> /\ sm_prev[1].entry = sm_last[1].entry)
        => sm_prev[1].res = sm_last[1].res

\* ---------------------------------------------------------------------- C14
\* The candidates that survive the exclude filter, in the order of the seeded
\* shuffle of the canonically sorted corpus.
Survivors ==
    SelectSeq(Shuffle(SortSeq(CandidatesInFileOrder(sm_meta), PairBefore), sm_args.seed),
              LAMBDA p : ~(sm_args.nogdrive
                           /\ (p[1] = 2 \/ sm_examples[p] = "drive")))

RandomRun ==
    /\ LastBy("runner")
    /\ sm_exists
    /\ sm_args.mode = "random"
    /\ sm_args.k >= 1
    /\ \A p \in Content(sm_meta) : sm_examples[p] # "missing"

Excluded(p) ==
    IF LastBy("app") THEN NameHasGdrive(p)
    ELSE _requires_gdrive(sm_examples[p], p[1])

\* C15: with nogdrive enabled no task that satisfies the exclude predicate is
\* handed to a session.
C15_NoExcludedTaskRuns ==
    (sm_last # <<>> /\ sm_args.nogdrive) =>
        \A i \in 1..Len(sm_posted) : ~Excluded(sm_posted[i])

\* ---------------------------------------------------------------------- C16
BadIndex == \E i \in 1..Len(sm_args.indices) :
               sm_args.indices[i] < 0
               \/ sm_args.indices[i] >= Cardinality(Content(sm_meta))

\* C16: in indices mode an index outside [0, N) fails the whole selection with
\* the out-of-range error: no pair is selected and no task is run, those at
\* the valid indices listed before the bad one included.
C16_BadIndexRunsNothing ==
    (LastBy("runner") /\ sm_exists /\ sm_args.mode = "indices" /\ BadIndex) =>
        /\ sm_last[1].res = Failed("index_out_of_range")
        /\ sm_err = "index_out_of_range"
        /\ sm_pc = "idle"
        /\ sm_pairs = <<>>
        /\ sm_posted = <<>>

\* The list 0, -1 was given for a corpus of two tasks or more: index 0 is
\* valid, the selection failed and nothing was run.
C16_Witness ==
    /\ LastBy("runner")
    /\ sm_args.mode = "indices"
    /\ sm_args.indices = <<0, 0 - 1>>
    /\ Cardinality(Content(sm_meta)) >= 2
    /\ sm_err = "index_out_of_range"
    /\ sm_posted = <<>>

\* ---------------------------------------------------------------------- C17
\* C17: when the task selection fails (missing meta file, empty or invalid
\* meta, missing task config file, unsupported mode) the error goes to the
\* caller and the session never starts: no run directory, no writer, no
\* provider or environment call, no result file.
C17_SamplerErrorsBeforeSession ==
    /\ (sm_err \in SamplerErrors =>
          /\ pc = "a2a_raised"
          /\ ~run_dir
          /\ ~trace_open
          /\ calls = <<>>
          /\ env = "none"
          /\ result_json = <<>>)
    /\ (pc = "a2a_raised" => sm_err # "")

\* The chosen example had no config file: the error was raised and nothing
\* of a session exists.
C17_Witness ==
    /\ sm_err = "task_config_not_found"
    /\ pc = "a2a_raised"
    /\ ~run_dir
    /\ calls = <<>>

\* ---------------------------------------------------------------------- C18
\* C18: save_frame with a missing payload or with one that is not valid
\* base64 returns None, raises nothing and leaves frames/ as it was.
C18_InvalidPayloadNoFile ==
    [][ (wr_n' = wr_n + 1 /\ wr_call'.op = "save_frame"
         /\ wr_call'.arg \in {"none", "empty", "bad", "junk"}) =>
            /\ wr_ret' = <<>>
            /\ ~wr_raised'
            /\ wr_dir' = wr_dir
            /\ wr_frames' = wr_frames
      ]_vars

\* ---------------------------------------------------------------------- C19
\* C19: the trace only grows, by one record per log_step, and a record whose
\* log_step has returned is in trace.jsonl from then on, whole and at its
\* place, also after the process was killed; only the record of a log_step
\* that had not returned can be missing or cut short.
C19_ReturnedRecordsSurvive ==
    /\ Len(wr_file) >= Len(wr_logged)
    /\ SubSeq(wr_file, 1, Len(wr_logged)) = wr_logged
    /\ Len(wr_file) <= Len(wr_logged) + 1
    /\ \A i \in 1..Len(wr_logged) : wr_logged[i].whole
    /\ (wr_pc = "idle" => wr_file = wr_logged)

\* Two log_step calls returned, the process was killed inside the third, and
\* the file holds the two records.
C19_Witness ==
    /\ wr_pc = "killed"
    /\ wr_n = 3
    /\ wr_call.op = "log_step"
    /\ Len(wr_logged) = 2
    /\ wr_file = <<[t |-> 1, whole |-> TRUE], [t |-> 2, whole |-> TRUE]>>

\* ---------------------------------------------------------------------- C20
\* C20: result.json (summary.json) holds the payload of the last
\* write_result (write_summary) and nothing else, and no such call fails,
\* whatever was written before.
C20_LastWriteWins ==
    /\ (wr_res_arg # <<>> => wr_result = wr_res_arg)
    /\ (wr_sum_arg # <<>> => wr_summary = wr_sum_arg)
    /\ (wr_call.op \in {"write_result", "write_summary"} => ~wr_raised)

\* A directory that already held a result.json: three write_result calls
\* later the file is the last payload.
C20_Witness ==
    /\ wr_n = 3
    /\ wr_call = [op |-> "write_result", idx |-> 0, arg |-> "second"]
    /\ wr_sum_arg = <<>>
    /\ wr_dir = {}
    /\ wr_logged = <<>>
    /\ wr_open
    /\ wr_pc = "idle"
    /\ wr_result = <<"second">>

\* C21: two artifact-index calls of the same function with the same task id
\* and the same given timestamps, with no frame, trace or result write
\* between them, leave the same content in artifact.json, from the in-memory
\* frame list and from the directory scan alike.
C21_ArtifactIdempotent ==
    \A i, j \in 1..Len(wr_art_log) :
        ( /\ wr_art_log[i].op = wr_art_log[j].op
          /\ wr_art_log[i].started = wr_art_log[j].started
          /\ wr_art_log[i].started # NoTime
          /\ wr_art_log[i].finished = wr_art_log[j].finished )
        => wr_art_log[i].out = wr_art_log[j].out

\* The same call made twice in a row on a reused directory whose frames the
\* scan has to find, the started_at given as 0.0.
C21_Witness ==
    /\ Len(wr_art_log) >= 2
    /\ wr_art_log[1].op = "artifact" /\ wr_art_log[2].op = "artifact"
    /\ wr_art_log[1].started = 0 /\ wr_art_log[2].started = 0
    /\ wr_frames = <<>> /\ wr_dir # {}
    /\ wr_artifact = wr_art_log[2].out
    /\ wr_artifact[1].frames = <<1>>

\* ---------------------------------------------------------------------- C24
\* C24: for every task identifier the sanitized name has only allowed
\* characters and at most the limit of characters, and sanitizing it again
\* returns it unchanged; for _safe_name and for the runner's _safe.
C24_SafeNameSafeAndStable ==
    /\ \A i \in 1..Len(nm_out) :
         /\ Len(nm_out[i]) <= NameLimit
         /\ \A k \in 1..Len(nm_out[i]) : nm_out[i][k] \in Allowed
    /\ (Len(nm_out) = 2 => nm_out[2] = nm_out[1])

\* An identifier longer than the limit, with white space at an end and a run
\* of other characters inside, sanitized twice by _safe_name.
C24_Witness ==
    /\ nm_fn = "_safe_name"
    /\ nm_in = <<" ", "/", "/", "a">>
    /\ Len(nm_out) = 2
    /\ nm_out[1] = <<"-", "a">>

\* ---------------------------------------------------------------------- C22
\* C22: any two sessions have distinct run directories, so that no trace.jsonl
\* holds records of two sessions and no session's result.json is replaced by
\* another's.  (The statement as claimed; two sessions with the same task id
\* in the same UTC second violate it.)
C22_RunDirsDistinct ==
    /\ \A s, t \in DOMAIN rd_dir :
         (s # t /\ rd_dir[s] # <<>> /\ rd_dir[t] # <<>>) => rd_dir[s] # rd_dir[t]
    /\ \A i, j \in 1..Len(rd_trace) :
         rd_trace[i].dir = rd_trace[j].dir => rd_trace[i].by = rd_trace[j].by
    /\ \A s \in DOMAIN rd_pc :
         rd_pc[s] = "done" => [dir |-> rd_dir[s][1], by |-> s] \in rd_result

\* ---------------------------------------------------------------------- C23
\* C23: under every interleaving of the sessions' check, unlink and symlink
\* calls, no session fails in the refresh, and once every session is through
\* it 'latest' exists and points to the run directory of the session whose
\* symlink_to succeeded last.
RefreshDone(s) == rd_pc[s] \in {"open", "log", "result", "done"}

C25_UntypedReplyIsDone ==
    data = NoType =>
        /\ action = [type |-> "special", name |-> "DONE", code |-> FALSE,
                     pause |-> DefaultPause]
        /\ exc = <<>>
        /\ pc \in {"dispatch", "record", "loop", "assemble", "finally",
                   "writer_close", "returned"}
        /\ \A i \in 1..Len(calls) :
             calls[i].op \in EnvStepOps =>
                 \E j \in (i + 1)..Len(calls) : calls[j].op = "act"
        /\ (pc \notin {"dispatch", "record"} =>
              /\ done
              /\ Len(trace) = Count(calls, "act")
              /\ trace[Len(trace)].action = action
              /\ trace[Len(trace)].reward = 0)
        /\ (Closing =>
              /\ response[1].steps = Count(calls, "act")
              /\ response[1].reward = 0
              /\ ~response[1].success
              /\ response[1].details.failure_type = "")

\* The second reply of a session had no type, and the session returned.
C25_Witness ==
    /\ pc = "returned"
    /\ data = NoType
    /\ Count(calls, "act") = 2
    /\ response[1].steps = 2

\* ---------------------------------------------------------------------- C26
\* C26: when the session has returned, result.json agrees with the returned
\* result on task_id, success, reward, steps and failure_type, and its details
\* carry the artifact_index the returned result carries.  (The statement as
\* claimed; result.json is written before artifact_index is set.)
C26_PersistedEqualsReturned ==
    (pc = "returned" /\ run_dir) =>
        /\ Len(result_json) = 1 /\ Len(response) = 1
        /\ result_json[1].task_id = response[1].task_id
        /\ result_json[1].success = response[1].success
        /\ result_json[1].reward = response[1].reward
        /\ result_json[1].steps = response[1].steps
        /\ result_json[1].details.failure_type = response[1].details.failure_type
        /\ result_json[1].details.artifact_index = response[1].details.artifact_index

\* ---------------------------------------------------------------------- C27
\* C27: whenever the loop condition is about to be evaluated after an
\* iteration, on whichever branch the directive was dispatched, the frame of
\* that iteration is saved (when the observation has a screenshot) and its
\* StepRecord is the last of the trace; so the records are complete before
\* the next provider query and before result assembly.
C27_RecordedBeforeLoopCondition ==
    /\ (pc = "loop" /\ steps > 0) =>
          /\ Len(trace) = steps
          /\ trace[steps] = [t |-> steps, action |-> action, reward |-> reward,
                             done |-> done]
          /\ IF obs.shot = "ok"
             THEN /\ frames # <<>>
                  /\ frames[Len(frames)] = [idx |-> steps, obs |-> obs.id]
             ELSE \A j \in 1..Len(frames) : frames[j].idx # steps
    /\ (pc = "act" => Len(trace) = steps - 1)
    /\ (pc = "assemble" => Len(trace) = steps)

\* The loop condition is reached after a WAIT step and then a FAIL step, the
\* records and the frames of both written.
C27_Witness ==
    /\ pc = "loop"
    /\ steps = 2
    /\ IsWaitDirective(trace[1].action)
    /\ Upper(trace[2].action.name) = "FAIL"
    /\ Len(frames) = 3

\* ---------------------------------------------------------------------- C28
\* C28: the dispatch of a special/DONE or special/FAIL directive sets done and
\* reward 0 without any environment call and leaves the observation as it
\* was; after that step is recorded the loop condition fails and the session
\* goes to result assembly with the same number of steps.
IsTerminationDirective(a) == a.type = "special" /\ Upper(a.name) \in {"DONE", "FAIL"}

C28_TerminationWithoutEnvCall ==
    [][ /\ (pc = "dispatch" /\ IsTerminationDirective(action)) =>
              /\ done' /\ reward' = 0
              /\ calls' = calls /\ obs' = obs /\ now' = now
              /\ exc' = <<>> /\ pc' = "record"
        /\ (pc = "record" /\ IsTerminationDirective(action)) =>
              /\ Len(trace') = Len(trace) + 1
              /\ trace'[Len(trace')].done /\ trace'[Len(trace')].reward = 0
              /\ calls' = calls /\ obs' = obs /\ pc' = "loop"
        /\ (pc = "loop" /\ steps > 0 /\ Len(trace) = steps
              /\ IsTerminationDirective(trace[steps].action)) =>
              /\ pc' = "assemble" /\ steps' = steps /\ calls' = calls
      ]_vars

\* A session ended by FAIL in its second step, after one environment call.
C28_Witness ==
    /\ pc = "assemble"
    /\ steps = 2
    /\ Upper(trace[2].action.name) = "FAIL"
    /\ trace[2].action.type = "special"
    /\ Count(calls, "act") = 2
    /\ Count(calls, "env_wait") + Count(calls, "env_step") = 1

\* ---------------------------------------------------------------------- C29
\* C29: what a session ended by FAIL leaves is what the same session ended by
\* DONE leaves: the last StepRecord is the directive with reward 0 and done,
\* and the result is the one value below, in which the name of the directive
\* does not occur: steps, reward 0, success = false, no failure type.
TerminationResult(n, wall, art) == ActResult(FALSE, 0, n, wall, "", {}, art)

C29_FailEndsLikeDone ==
    \A i \in 1..Len(trace) :
        IsTerminationDirective(trace[i].action) =>
            /\ i = Len(trace) /\ steps = i
            /\ trace[i] = [t |-> i, action |-> trace[i].action, reward |-> 0,
                           done |-> TRUE]
            /\ exc = <<>>
            /\ (Closing =>
                  /\ response = <<TerminationResult(i, response[1].wall_time_sec, TRUE)>>
                  /\ result_json = <<TerminationResult(i, response[1].wall_time_sec, FALSE)>>)

\* FAIL at step 1 of a session with two steps and time to spare, returned.
C29_Witness ==
    /\ pc = "returned"
    /\ max_steps = 2
    /\ (now - t0) < max_seconds
    /\ Len(trace) = 1
    /\ trace[1].action.type = "special"
    /\ trace[1].action.name = "FAIL"
    /\ ~response[1].success

\* ---------------------------------------------------------------------- C30
\* C30: when an environment call (step or wait) returned done = true, the
\* reward it returned is the reward of the result and success is exactly
\* (that reward > 0); a result with success = true comes from no other case.
EndedByEnvCall ==
    /\ exc = <<>>
    /\ trace # <<>>
    /\ trace[Len(trace)].done
    /\ EnvCallOf(trace[Len(trace)].action)[1] \in EnvStepOps

C30_EnvRewardIsFinal ==
    /\ (EndedByEnvCall /\ pc \in {"loop", "assemble"}) =>
          /\ done /\ reward_final = trace[Len(trace)].reward
    /\ (EndedByEnvCall /\ Closing) =>
          /\ response[1].reward = trace[Len(trace)].reward
          /\ response[1].success = (trace[Len(trace)].reward > 0)
          /\ response[1].steps = Len(trace)
          /\ result_json[1].reward = response[1].reward
          /\ result_json[1].success = response[1].success
    /\ (response # <<>> /\ response[1].success) =>
          /\ EndedByEnvCall
          /\ response[1].reward > 0

\* An environment call returned done with reward 1 in the second step, after
\* a first step with reward 1 and no done, and the result reports success.
C30_Witness ==
    /\ pc = "returned"
    /\ EndedByEnvCall
    /\ Len(trace) = 2
    /\ trace[1].reward = 1 /\ ~trace[1].done
    /\ trace[2].reward = 1
    /\ response[1].success
    /\ response[1].reward = 1

\* ---------------------------------------------------------------------- C31
\* C31: a session whose loop ended on the step or time budget, done never
\* true, keeps the final reward 0 it started with and reports reward 0 and
\* success = false, whatever rewards its environment calls returned.
BudgetExhausted == exc = <<>> /\ ~done /\ pc \in {"assemble", "finally", "writer_close", "returned"}

C31_BudgetExitRewardZero ==
    /\ (~done => reward_final = 0)
    /\ BudgetExhausted =>
          /\ (steps >= max_steps \/ (now - t0) >= max_seconds)
          /\ (Closing =>
                /\ response[1].reward = 0
                /\ ~response[1].success
                /\ response[1].details.failure_type = ""
                /\ result_json[1].reward = 0
                /\ ~result_json[1].success)

\* Both steps of a session returned reward 1 without done; the step budget
\* ended it.
C31_Witness ==
    /\ pc = "returned"
    /\ BudgetExhausted
    /\ steps = 2 /\ max_steps = 2
    /\ trace[1].reward = 1 /\ trace[2].reward = 1
    /\ response[1].reward = 0

\* ---------------------------------------------------------------------- C32
\* C32: a directive that is special with a name other than WAIT, DONE, FAIL,
\* that is code without code, or that has another type, leads to exactly one
\* env.wait(0.5) in its iteration, whatever pause it carries, and to nothing
\* else: an error in such an iteration is an error of that wait.
IsMalformed(a) ==
    \/ a.type = "special" /\ Upper(a.name) \notin {"WAIT", "DONE", "FAIL"}
    \/ a.type = "code" /\ ~a.code
    \/ a.type \notin {"special", "code", ""}

\* The calls made in iteration i after its provider query.
CallsAfterAct(i) ==
    LET k == CHOOSE k \in 1..Len(calls) : calls[k].op = "act" /\ calls[k].arg = i
        rest == SubSeq(calls, k + 1, Len(calls))
    IN SelectSeq(rest, LAMBDA c : c.op \in LoopOps /\ ~(c.op = "act"))

C32_MalformedIsWaitHalfSecond ==
    /\ \A i \in 1..Len(trace) :
         IsMalformed(trace[i].action) =>
             LET k == CHOOSE k \in 1..Len(calls) : calls[k].op = "act" /\ calls[k].arg = i
             IN /\ calls[k + 1] = [op |-> "env_wait", arg |-> DefaultPause]
                /\ (k + 2 <= Len(calls) => calls[k + 2].op \notin EnvStepOps)
    /\ (pc \in {"record", "except", "finally", "writer_close", "returned"}
          /\ steps > Len(trace) /\ ~ActFailed /\ IsMalformed(action)) =>
             CallsAfterAct(steps) = <<[op |-> "env_wait", arg |-> DefaultPause]>>
    /\ (pc = "dispatch" /\ IsMalformed(action)) => exc = <<>>

\* A session went through a special directive with an unknown name and a
\* pause of 2 s, and through a directive of another type, and returned
\* without a failure.
C32_Witness ==
    /\ pc = "returned"
    /\ exc = <<>>
    /\ Len(trace) = 2
    /\ trace[1].action = [type |-> "special", name |-> "NOP", code |-> FALSE, pause |-> 20]
    /\ trace[2].action.type = "click"
    /\ Count(calls, "env_wait") = 2

\* ---------------------------------------------------------------------- C33
\* C33: a special/WAIT directive leads to one env.wait and a code directive
\* with code to one env.step, made with the pause the directive carries, for
\* every pause, 0 included.  (The statement as claimed; "action.pause or 0.5"
\* turns a pause of 0 into 0.5.)
C33_PauseAsCarried ==
    \A i \in 1..Len(trace) :
        LET a == trace[i].action
            k == CHOOSE k \in 1..Len(calls) : calls[k].op = "act" /\ calls[k].arg = i
        IN /\ IsWaitDirective(a) => calls[k + 1] = [op |-> "env_wait", arg |-> a.pause]
           /\ (a.type = "code" /\ a.code) =>
                 calls[k + 1] = [op |-> "env_step", arg |-> a.pause]

\* ---------------------------------------------------------------------- C34
\* C34 as stated: while a session is inside an environment call on a worker,
\* every other unfinished session can take its next step.
InWorker(s) == lp_pc[s] = "in_worker"

ProviderResetFailed == calls # <<>> /\ calls[1] = [op |-> "white_reset", arg |-> 1]

\* C35: the provider reset is best-effort: when it raised, the session goes on
\* to the adapter construction, the environment reset and the loop as it does
\* after a reset that answered; a failure_type in the result then comes from
\* an error of a later call, whose message the result carries, and a session
\* with no later error has no failure_type.
C35_ResetFailureIsDropped ==
    ProviderResetFailed =>
        /\ (Len(calls) = 1 => (pc = "env_new" /\ exc = <<>>))
        /\ (Len(calls) >= 2 => calls[2].op = "env_new")
        /\ (Len(calls) >= 3 /\ env = "built" => calls[3].op = "env_reset")
        /\ (pc \in {"loop", "act", "dispatch", "record", "assemble"} => exc = <<>>)
        /\ (Closing =>
              /\ (exc = <<>> <=> response[1].details.failure_type = "")
              /\ (exc = <<>> <=> result_json[1].details.failure_type = "")
              /\ (exc # <<>> =>
                    /\ response[1].details.message = exc[1].msg
                    /\ \E i \in 2..Len(calls) :
                          calls[i].op \in {"env_new", "env_reset"} \cup LoopOps)
              /\ (exc = <<>> => Count(calls, "env_reset") = 1))

\* The provider reset raised; the session ran two iterations and returned a
\* success without failure_type.
C35_Witness ==
    /\ pc = "returned"
    /\ ProviderResetFailed
    /\ Count(calls, "env_reset") = 1
    /\ Count(calls, "act") = 2
    /\ steps = 2
    /\ response[1].success
    /\ response[1].details.failure_type = ""

\* ---------------------------------------------------------------------- C36
\* C36: in the A2A entry point, the session started for an instruction that
\* contains <white_agent_url>U</white_agent_url> sends its provider reset and
\* act calls to U and not to the process-wide default URL; an instruction
\* without the tag is rejected before a task is chosen or a run directory made.
C36_CallsGoToInstructionUrl ==
    /\ \A i \in 1..Len(ur_posts) :
          /\ ur_posts[i].base = RStripSlash(ur_url)
          /\ ur_posts[i].base # WHITE_AGENT_URL
    /\ (Find(ur_instr, OpenTag, 1) = 0 /\ ur_pc # "execute" =>
          (ur_pc = "raised" /\ ~ur_chosen /\ ~ur_run_dir /\ ur_posts = <<>>))

\* ---------------------------------------------------------------------- C37
\* One step of a session keeps the order of its external calls: the call log
\* grows by one call at a time; the provider reset, the construction and the
\* environment reset are the first three calls and are made there only; an
\* act call is the call of the iteration just begun and follows the reset or
\* the previous iteration; an environment step or wait directly follows an
\* act call; no act, step or wait is made once done is true; nothing is
\* called after the close; an iteration that has begun makes its act call.
CallStep ==
    LET n == Len(calls) IN
    /\ (calls' # calls =>
          /\ Len(calls') = n + 1
          /\ SubSeq(calls', 1, n) = calls
          /\ (n > 0 => calls[n].op # "env_close")
          /\ LET c == calls'[n + 1] IN
             /\ (c.op = "white_reset" <=> n = 0)
             /\ (c.op = "env_new" <=> n = 1)
             /\ (c.op = "env_reset" <=> n = 2)
             /\ (c.op \in LoopOps => ~done)
             /\ (c.op = "act" =>
                   /\ n >= 3
                   /\ calls[n].op \in {"env_reset", "act"} \cup EnvStepOps
                   /\ c.arg = steps
                   /\ c.arg = (IF calls[n].op = "env_reset" THEN 1
                               ELSE IF calls[n].op = "act" THEN calls[n].arg + 1
                               ELSE calls[n - 1].arg + 1))
             /\ (c.op \in EnvStepOps => (n >= 4 /\ calls[n].op = "act"))
             /\ (c.op = "env_close" => (n >= 3 /\ env = "built")))
    /\ (pc = "act" => (calls' # calls /\ calls'[n + 1].op = "act"))
    /\ (steps' # steps => (steps' = steps + 1 /\ pc' = "act"))

\* C37 as stated: the calls of a session follow the protocol, and the
\* environment reset happens exactly once in it.
C37_FixedProtocol ==
    /\ [][CallStep]_vars
    /\ [](pc = "returned" => Count(calls, "env_reset") = 1)

\* C37 amended: the calls follow the protocol; the environment reset happens
\* at most once, and exactly once when the adapter was constructed (a session
\* whose construction raised makes no environment call at all); a session
\* that constructed its adapter ends with the close.
C37_ProtocolResetOnceIfBuilt ==
    /\ [][CallStep]_vars
    /\ [](pc = "returned" =>
            IF env = "built"
            THEN /\ Count(calls, "env_reset") = 1
                 /\ Count(calls, "env_close") = 1
                 /\ calls[Len(calls)].op = "env_close"
            ELSE Ops(calls) = <<"white_reset", "env_new">>)

\* Two iterations, the first with an environment step and the second ended by
\* the provider, then the close.
C37_Witness ==
    /\ pc = "returned"
    /\ Ops(calls) = <<"white_reset", "env_new", "env_reset", "act", "env_step",
                      "act", "env_close">>
    /\ Len(trace) = 2
    /\ trace[2].done

\* ---------------------------------------------------------------------- C38
\* An error was raised inside an iteration: by the act call or by the
\* environment call that followed it.
IterationAborted == exc # <<>> /\ Count(calls, "act") > 0

\* C38: the steps field of the result lies in 0..max_steps and is the number
\* of StepRecords or one more; it is the number of StepRecords when the
\* result has no failure_type, and one more exactly when an iteration was
\* aborted by a provider or environment error after the counter was
\* incremented.
C38_StepsAgainstRecords ==
    Closing =>
        \A r \in {response[1], result_json[1]} :
            /\ 0 <= r.steps /\ r.steps <= max_steps
            /\ Len(trace) <= r.steps /\ r.steps <= Len(trace) + 1
            /\ (r.details.failure_type = "" => r.steps = Len(trace))
            /\ (r.steps = Len(trace) + 1 <=> IterationAborted)

\* The only iteration the budget allows was aborted by the provider: steps is
\* 1 = max_steps and the trace is empty.
C38_Witness ==
    /\ pc = "returned"
    /\ ActFailed
    /\ max_steps = 1
    /\ response[1].steps = 1
    /\ trace = <<>>
    /\ response[1].details.failure_type # ""

\* ---------------------------------------------------------------------- C39
\* C39: a result has a failure_type exactly when an error was caught at
\* session scope, and then success is false and the reward 0 whatever the
\* environment had reported before; a result with success = true has a
\* positive reward and no failure_type.
C39_FailureTypeIffCaught ==
    Closing =>
        \A r \in {response[1], result_json[1]} :
            /\ (r.details.failure_type # "" <=> exc # <<>>)
            /\ (r.details.failure_type # "" =>
                  (r.details.failure_type \in FailureClasses
                   /\ ~r.success /\ r.reward = 0))
            /\ (r.success => (r.reward > 0 /\ r.details.failure_type = ""))

\* The environment reported a positive reward in the first iteration and the
\* second iteration raised: the result is a failure with reward 0.
C39_Witness ==
    /\ pc = "returned"
    /\ exc # <<>>
    /\ Len(trace) = 1
    /\ trace[1].reward = 1
    /\ reward = 1
    /\ ~response[1].success
    /\ response[1].reward = 0
    /\ response[1].details.failure_type = "runtime_error"

\* ---------------------------------------------------------------------- C40
SetupPhrases == {"setup step", "setup failed"}
WhitePhrases == {"white /act error", "white agent"}

\* C40: a message that matches several known phrases is classified by the
\* precedence env_setup > white_error > unauthorized: with a setup phrase it
\* is env_setup whatever else it names; otherwise, with a white-agent phrase
\* it is white_error even when it contains "unauthorized"; it is unauthorized
\* only when it has that word and none of the other phrases.
C40_Precedence ==
    \A i \in 1..Len(cf_out) :
        LET msg == LowerText(cf_text) IN
        /\ (msg \cap SetupPhrases # {} => cf_out[i] = "env_setup")
        /\ (msg \cap SetupPhrases = {} /\ msg \cap WhitePhrases # {} =>
              cf_out[i] = "white_error")
        /\ (cf_out[i] = "unauthorized" <=>
              (/\ "unauthorized" \in msg
               /\ msg \cap SetupPhrases = {}
               /\ msg \cap WhitePhrases = {}))

\* The error of an act call whose text says UNAUTHORIZED was classified.
C40_Witness ==
    /\ cf_text = {"White /act error", "UNAUTHORIZED"}
    /\ Len(cf_out) >= 1
    /\ cf_out[1] = "white_error"
====
